---------------------------- MODULE Spec2Model ----------------------------
(***************************************************************************)
(* Life Cycle Management PulleyBack (arpa2/lifecyclemanagement).           *)
(*                                                                         *)
(* A model of src/src/lifecycle.c: the lifecycleState cursor, the          *)
(* per-object list of lcstate nodes with its three stage pointers          *)
(* (lcs_toadd, lcs_first, lcs_todel), the transaction cycle of lcenv, the  *)
(* pulleyback entry points and the service thread of every lcenv.          *)
(*                                                                         *)
(* Representation.  A C string is a sequence of one-character strings; an  *)
(* offset is 0-based as in C and the offset Len(s) reads the NUL.  The     *)
(* lcstate nodes of one lcobject form one chain through lcs_next; the      *)
(* chain is the sequence "lst" and a pointer to a node is its index in     *)
(* that sequence, 0 being the NULL pointer.  The lcobject list of an lcenv *)
(* (lco_first / lco_next) is a sequence as well.  assert() is live in      *)
(* every build that runs at all (the mutex locks and pthread_create are    *)
(* written inside assert), so a failing assertion aborts the process: the  *)
(* variable "fault" names the assertion and no action is enabled after.    *)
(***************************************************************************)
EXTENDS Integers, Sequences, FiniteSets, TLC

(***************************************************************************)
(* Characters and C strings                                                *)
(***************************************************************************)
NUL == "NUL"

Digits == {"0", "1", "2", "3", "4", "5", "6", "7", "8", "9"}

Letters ==
  {"a", "b", "c", "d", "e", "f", "g", "h", "i", "j", "k", "l", "m",
   "n", "o", "p", "q", "r", "s", "t", "u", "v", "w", "x", "y", "z",
   "A", "B", "C", "D", "E", "F", "G", "H", "I", "J", "K", "L", "M",
   "N", "O", "P", "Q", "R", "S", "T", "U", "V", "W", "X", "Y", "Z"}

\* s[k] in C: the character at 0-based offset k, NUL at the end
CharAt(s, k) == IF k < Len(s) THEN s[k + 1] ELSE NUL

\* the C string that starts at offset k of s
Tail0(s, k) == SubSeq(s, k + 1, Len(s))

isalnum(c) == c \in Letters \cup Digits

isdigit(c) == c \in Digits

IsIdChar(c) == isalnum(c) \/ c = "-" \/ c = "_"

RECURSIVE idlenAt(_, _)
idlenAt(s, k) ==
  IF CharAt(s, k) # NUL /\ IsIdChar(CharAt(s, k))
  THEN 1 + idlenAt(s, k + 1)
  ELSE 0

\* idlen (idstr): the length of the identifier at the start of idstr
idlen(idstr) == idlenAt(idstr, 0)

\* find_type (next): the character that follows the identifier
find_type(next) == CharAt(next, idlen(next))

RECURSIVE strchrnulAt(_, _, _)
strchrnulAt(s, k, c) ==
  IF CharAt(s, k) # NUL /\ CharAt(s, k) # c
  THEN strchrnulAt(s, k + 1, c)
  ELSE k

\* strchrnul (s + k, c) as an offset into s: the first c at or after k,
\* or the offset of the NUL
strchrnul(s, k, c) == strchrnulAt(s, k, c)

\* strchr (s + k, c) as an offset into s, -1 for NULL
strchr(s, k, c) ==
  LET j == strchrnulAt(s, k, c) IN IF CharAt(s, j) = c THEN j ELSE -1

\* strncmp (a, b, n) == 0
RECURSIVE strncmpEq(_, _, _)
strncmpEq(a, b, n) ==
  IF n = 0 THEN TRUE
  ELSE IF CharAt(a, 0) # CharAt(b, 0) THEN FALSE
  ELSE IF CharAt(a, 0) = NUL THEN TRUE
  ELSE strncmpEq(Tail0(a, 1), Tail0(b, 1), n - 1)

\* a strmemcmp that leaves out the test of str [memlen]
strmemcmp_prefix(str, mem, memlen) ==
  IF strncmpEq(str, mem, memlen) THEN 0 ELSE 1

\* strmemcmp (str, mem, memlen): 0 when str is exactly the memlen
\* characters at mem, non-zero otherwise
strmemcmp(str, mem, memlen) ==
  IF strncmpEq(str, mem, memlen)
  THEN (IF CharAt(str, memlen) # NUL THEN -1 ELSE 0)
  ELSE 1

\* strstr (s, " . ") as an offset, -1 for NULL
strstrDot(s) ==
  LET hits == {k \in 0..Len(s) :
                 /\ CharAt(s, k) = " "
                 /\ CharAt(s, k + 1) = "."
                 /\ CharAt(s, k + 2) = " "}
  IN IF hits = {} THEN -1
     ELSE CHOOSE k \in hits : \A j \in hits : k <= j

\* ULONG_MAX of an unsigned long that is as wide as time_t, with the width
\* scaled to 31 bits, the widest that the integers of TLC hold
ULONG_MAX == 2147483647

\* strtoul (s + k, .., 10) on a run of decimal digits: every digit is
\* read, and a value beyond ULONG_MAX comes back as ULONG_MAX
RECURSIVE strtoulAcc(_, _, _)
strtoulAcc(s, k, acc) ==
  IF isdigit(CharAt(s, k))
  THEN LET d == CHOOSE x \in 0..9 : ToString(x) = CharAt(s, k)
       IN strtoulAcc(s, k + 1, IF acc > (ULONG_MAX - d) \div 10 THEN ULONG_MAX
                                ELSE 10 * acc + d)
  ELSE acc

strtoul(s, k) == strtoulAcc(s, k, 0)

(***************************************************************************)
(* Grammar of lifecycleState (LIFECYCLESTATE_RE) and of distinguishedName  *)
(* (DISTINGUISHEDNAME_RE), as the POSIX extended regular expressions of    *)
(* lifecycle.h accept them.                                                *)
(***************************************************************************)
\* the pieces of s between occurrences of sep
RECURSIVE Split(_, _)
Split(s, sep) ==
  LET j == strchrnulAt(s, 0, sep)
  IN IF j = Len(s) THEN <<s>>
     ELSE <<SubSeq(s, 1, j)>> \o Split(Tail0(s, j + 1), sep)

AllIn(s, set) == \A i \in 1..Len(s) : s[i] \in set

\* IDENTIFIER_RE  ([a-zA-Z_-]+[0-9]*)
IDENTIFIER_RE(tok) ==
  \E p \in 1..Len(tok) :
     /\ AllIn(SubSeq(tok, 1, p), Letters \cup {"_", "-"})
     /\ AllIn(SubSeq(tok, p + 1, Len(tok)), Digits)

\* TIMESTAMP_RE  ([0-9]+)
TIMESTAMP_RE(tok) == Len(tok) >= 1 /\ AllIn(tok, Digits)

\* VALUE_RE  ([^ .]*)
VALUE_RE(tok) == \A i \in 1..Len(tok) : tok[i] \notin {" ", "."}

\* the identifier of a token and what follows its type character
TokId(tok) == SubSeq(tok, 1, idlen(tok))

TokArg(tok) == Tail0(tok, idlen(tok) + 1)

\* DONE_RE: event@timestamp | lifecycle?event | variable=value
DONE_RE(tok) ==
  /\ IDENTIFIER_RE(TokId(tok))
  /\ \/ find_type(tok) = "@" /\ TIMESTAMP_RE(TokArg(tok))
     \/ find_type(tok) = "?" /\ IDENTIFIER_RE(TokArg(tok))
     \/ find_type(tok) = "=" /\ VALUE_RE(TokArg(tok))

\* NEXT_RE: event@timestamp? | lifecycle?event
NEXT_RE(tok) ==
  /\ IDENTIFIER_RE(TokId(tok))
  /\ \/ find_type(tok) = "@" /\ (TokArg(tok) = <<>> \/ TIMESTAMP_RE(TokArg(tok)))
     \/ find_type(tok) = "?" /\ IDENTIFIER_RE(TokArg(tok))

\* TO_DO_RE: event@timestamp? | lifecycle?event | variable=value?
TO_DO_RE(tok) ==
  /\ IDENTIFIER_RE(TokId(tok))
  /\ \/ find_type(tok) = "@" /\ (TokArg(tok) = <<>> \/ TIMESTAMP_RE(TokArg(tok)))
     \/ find_type(tok) = "?" /\ IDENTIFIER_RE(TokArg(tok))
     \/ find_type(tok) = "=" /\ VALUE_RE(TokArg(tok))

\* grammar_lcstate (lcs): regexec of LIFECYCLESTATE_RE, anchored
grammar_lcstate(lcs) ==
  LET toks == Split(lcs, " ")
      n == Len(toks)
  IN /\ n >= 2
     /\ IDENTIFIER_RE(toks[1])
     /\ \E d \in 2..n :
          /\ toks[d] = <<".">>
          /\ \A i \in 2..(d - 1) : DONE_RE(toks[i])
          /\ \/ d = n
             \/ /\ d + 1 <= n
                /\ NEXT_RE(toks[d + 1])
                /\ \A i \in (d + 2)..n : TO_DO_RE(toks[i])

\* KEYSTRING_RE  ([A-Za-z][A-Za-z0-9-]*)
KEYSTRING_RE(s) ==
  /\ Len(s) >= 1
  /\ s[1] \in Letters
  /\ AllIn(s, Letters \cup Digits \cup {"-"})

\* OID_RE  ([1-9][0-9]*([.][1-9][0-9]*)*)
OID_RE(s) ==
  \A part \in {Split(s, ".")[i] : i \in 1..Len(Split(s, "."))} :
     /\ Len(part) >= 1
     /\ part[1] \in Digits \ {"0"}
     /\ AllIn(part, Digits)

\* ATTRTYPEVAL_RE: type "=" value, the value free of ',' and '+'
ATTRTYPEVAL_RE(s) ==
  LET eq == strchr(s, 0, "=")
  IN /\ eq >= 0
     /\ KEYSTRING_RE(SubSeq(s, 1, eq)) \/ OID_RE(SubSeq(s, 1, eq))

\* grammar_dn (dn): regexec of DISTINGUISHEDNAME_RE, anchored
grammar_dn(dn) ==
  \A i \in 1..Len(Split(dn, ",")) :
     LET rdn == Split(dn, ",")[i]
     IN \A j \in 1..Len(Split(rdn, "+")) : ATTRTYPEVAL_RE(Split(rdn, "+")[j])

(***************************************************************************)
(* DER values: the distinguishedName and lifecycleState the upstream feeds *)
(***************************************************************************)
\* parse_der (der, &ptr, &len): der [1] read as short length, or as a
\* length of length that must be 1 or 2; ptr is an offset into der.  The
\* long forms take the length from the very octet that holds the length
\* of length.  After a failure ptr is what it was and len is 0.
parse_der(der) ==
  LET octet == der[2]
      lenlen == octet % 128
  IN IF octet >= 128
     THEN IF lenlen < 1 \/ lenlen > 2
          THEN [ok |-> FALSE, ptr |-> 0, len |-> 0]
          ELSE IF lenlen = 2
               THEN [ok |-> TRUE, ptr |-> 3, len |-> octet * 256 + der[3]]
               ELSE [ok |-> TRUE, ptr |-> 2, len |-> octet]
     ELSE [ok |-> TRUE, ptr |-> 2, len |-> octet]

\* _int_pb_addnotdel: the array dnstr / lcsstr that memcpy fills with len
\* characters from ptr (none when parse_der has failed or did not run)
der_str(der) ==
  LET p == parse_der(der) IN SubSeq(der, p.ptr + 1, p.ptr + p.len)

\* memchr (str, '\0', len) == NULL
memchr_none(str) == \A i \in 1..Len(str) : str[i] # NUL

\* tag 0x04 and a short length in front of the characters, as the tests
\* write their values
der_short(str) == <<4, Len(str)>> \o str

\* the long forms that parse_der accepts: 0x81 and one length octet, 0x82
\* and two length octets with the high one first
der_long1(str) == <<4, 129, Len(str)>> \o str

der_long2(str) == <<4, 130, Len(str) \div 256, Len(str) % 256>> \o str

\* the octets that stand for str: the shortest form that holds its length
der_value(str) ==
  IF Len(str) < 128 THEN der_short(str)
  ELSE IF Len(str) < 256 THEN der_long1(str)
  ELSE der_long2(str)

\* 1 "o=a", 2 "o=b", 3 "x" (no attribute type: rejected by grammar_dn),
\* 4 "o=a" behind a length of length 3
der_dn ==
  << der_short(<<"o", "=", "a">>),
     der_short(<<"o", "=", "b">>),
     der_short(<<"x">>),
     <<4, 131, 0, 0, 3, "o", "=", "a">> >>

\* 1 "x . go@"       timer without a time: fires as soon as possible
\* 2 "y . b@2"       timer at time 2
\* 3 "z . c@3"       timer at time 3
\* 4 "y . a@ . b@"   two dots: rejected by grammar_lcstate
\* 5 "x . y?go"      awaits event go of life cycle y
\* 6 "z ."           accepted by the grammar, but without " . " inside
\* 7 "y go@1 . y?go b@"  awaits an event of its own life cycle
\* 8 "y . b@2" with a NUL character after it, inside the length
der_at ==
  << der_short(<<"x", " ", ".", " ", "g", "o", "@">>),
     der_short(<<"y", " ", ".", " ", "b", "@", "2">>),
     der_short(<<"z", " ", ".", " ", "c", "@", "3">>),
     der_short(<<"y", " ", ".", " ", "a", "@", " ", ".", " ", "b", "@">>),
     der_short(<<"x", " ", ".", " ", "y", "?", "g", "o">>),
     der_short(<<"z", " ", ".">>),
     der_short(<<"y", " ", "g", "o", "@", "1", " ", ".", " ", "y", "?", "g", "o", " ", "b", "@">>),
     der_short(<<"y", " ", ".", " ", "b", "@", "2", NUL, "x">>) >>

\* dnstr and lcsstr of every value
DnText == [d \in 1..Len(der_dn) |-> der_str(der_dn[d])]

LcsText == [t \in 1..Len(der_at) |-> der_str(der_at[t])]

\* MAX_TIME_T ((~(time_t)0)>>1), taken as the largest value of a signed
\* time_t as wide as unsigned long, and the 0x7fffffff that
\* service_update_timers starts accept_upto at, scaled into the integers
\* of TLC with their order kept: every clock value and every
\* timestamp of LcsText < accept_upto < MAX_TIME_T - clock
MAX_TIME_T == 1073741823

\* (time_t) stamp of an unsigned long, and (unsigned long) t of a time_t:
\* the same bits, read with and without a sign
to_time_t(stamp) == IF stamp > MAX_TIME_T THEN (stamp - ULONG_MAX) - 1 ELSE stamp

to_ulong(t) == IF t < 0 THEN (t + ULONG_MAX) + 1 ELSE t

ACCEPT_UPTO_INIT == 1000000

(***************************************************************************)
(* struct lcstate and struct lcobject                                      *)
(***************************************************************************)
\* the NULL pointer, and the node after node i of a chain
NULL == 0

NextPtr(lst, i) == IF i < Len(lst) THEN i + 1 ELSE NULL

\* a pointer as a position 1..n+1 of the chain (NULL is the end), and back
Pos(p, n) == IF p = NULL THEN n + 1 ELSE p

Ptr(pos, n) == IF pos > n THEN NULL ELSE pos

\* new_lcstate, the lcstate itself: cursor after the first " . ", its
\* type, tim_next dirty (calloc); cnt_missed stays 0 and is left out
\* a new_lcstate that takes every text as one without " . "
text_lcstate_nodot(txt) ==
  [txt |-> txt, ofs_next |-> Len(txt), typ_next |-> NUL, tim_next |-> 0]

text_lcstate(txt) ==
  LET dot == strstrDot(txt)
  IN IF dot = -1
     THEN [txt |-> txt, ofs_next |-> Len(txt), typ_next |-> NUL, tim_next |-> 0]
     ELSE [txt |-> txt, ofs_next |-> 3 + dot,
           typ_next |-> find_type(Tail0(txt, dot + 3)), tim_next |-> 0]

\* the lcstate of the value t
init_lcstate(t) == text_lcstate(LcsText[t])

\* new_lcstate (lco, lcs, lcslen): the new node is put before lcs_toadd
\* and the object's fire time is smudged
new_lcstate(lco, t) ==
  [lco EXCEPT
     !.tim_first = 0,
     !.lst       = <<init_lcstate(t)>> \o SubSeq(lco.lst, Pos(lco.lcs_toadd, Len(lco.lst)), Len(lco.lst)),
     !.lcs_toadd = 1,
     !.lcs_first = IF lco.lcs_first = NULL THEN NULL ELSE lco.lcs_first + 1,
     !.lcs_todel = IF lco.lcs_todel = NULL THEN NULL ELSE lco.lcs_todel + 1]

\* new_lcobject (dn, dnlen)
new_lcobject(d) ==
  [dn |-> DnText[d], lst |-> <<>>, lcs_toadd |-> NULL, lcs_first |-> NULL,
   lcs_todel |-> NULL, tim_first |-> MAX_TIME_T]

\* a find_lcstate_ptr that does not stop at last_opt
RECURSIVE find_lcstate_ptr_all(_, _, _, _)
find_lcstate_ptr_all(lst, first, last_opt, t) ==
  IF first = NULL THEN NULL
  ELSE IF strmemcmp(lst[first].txt, LcsText[t], Len(LcsText[t])) = 0
       THEN first
       ELSE find_lcstate_ptr_all(lst, NextPtr(lst, first), last_opt, t)

\* find_lcstate_ptr (&first, last_opt, mem, memlen): the node whose text
\* is exactly mem, searched from first up to last_opt (or the end)
RECURSIVE find_lcstate_ptr(_, _, _, _)
find_lcstate_ptr(lst, first, last_opt, t) ==
  IF first = last_opt \/ first = NULL THEN NULL
  ELSE IF strmemcmp(lst[first].txt, LcsText[t], Len(LcsText[t])) = 0
       THEN first
       ELSE find_lcstate_ptr(lst, NextPtr(lst, first), last_opt, t)

\* find_lcobject: the index in the object list of the lcobject with this
\* distinguishedName (the uthash table holds exactly the listed objects)
find_lcobject(objs, d) ==
  IF \E k \in 1..Len(objs) : objs[k].dn = DnText[d]
  THEN CHOOSE k \in 1..Len(objs) : objs[k].dn = DnText[d]
  ELSE NULL

\* the chain that starts at lcs_first: what is read outside transactions
Committed(lco) == SubSeq(lco.lst, Pos(lco.lcs_first, Len(lco.lst)), Len(lco.lst))

\* remove / insert one element of a sequence
RemoveAt(s, i) == SubSeq(s, 1, i - 1) \o SubSeq(s, i + 1, Len(s))

InsertAt(s, q, x) == SubSeq(s, 1, q - 1) \o <<x>> \o SubSeq(s, q, Len(s))

\* a deletion branch that frees the found node at once
del_lcstate_free(lco, i) ==
  LET n      == Len(lco.lst)
      cut(p) == IF Pos(p, n) > i THEN Pos(p, n) - 1 ELSE Pos(p, n)
  IN [lco EXCEPT
        !.lst       = RemoveAt(lco.lst, i),
        !.lcs_first = Ptr(cut(lco.lcs_first), n - 1),
        !.lcs_toadd = Ptr(cut(lco.lcs_toadd), n - 1),
        !.lcs_todel = Ptr(cut(lco.lcs_todel), n - 1)]

\* _int_pb_addnotdel, deletion branch: cut the found node i out of the
\* chain and put it in front of lcs_todel
del_lcstate(lco, i) ==
  LET n     == Len(lco.lst)
      lcs   == lco.lst[i]
      \* after the cut: a pointer at lcs now points at its successor
      cut(p) == IF Pos(p, n) > i THEN Pos(p, n) - 1 ELSE Pos(p, n)
      cutlst == RemoveAt(lco.lst, i)
      first1 == cut(lco.lcs_first)
      toadd1 == cut(lco.lcs_toadd)
      \* the link that holds lcs_todel, found walking from lcs_toadd
      q      == cut(lco.lcs_todel)
      first2 == IF first1 > q THEN first1 + 1 ELSE first1
  IN [lco EXCEPT
        !.lst       = InsertAt(cutlst, q, lcs),
        !.lcs_first = Ptr(first2, n),
        !.lcs_toadd = Ptr(toadd1, n),
        !.lcs_todel = q]

(***************************************************************************)
(* Timer functions                                                         *)
(***************************************************************************)
\* update_lcstate_firetime (lcs) at time (NULL) = now
update_lcstate_firetime(lcs, now) ==
  LET txt     == lcs.txt
      timestr == strchr(txt, lcs.ofs_next, "@")
  IN IF lcs.typ_next # "@" THEN MAX_TIME_T
     ELSE IF timestr = -1 THEN MAX_TIME_T
     ELSE IF ~isdigit(CharAt(txt, timestr + 1)) THEN now
     ELSE CHOOSE update \in
             {IF stamp = 0 THEN now
              ELSE IF stamp # to_ulong(to_time_t(stamp)) THEN MAX_TIME_T
              ELSE to_time_t(stamp) : stamp \in {strtoul(txt, timestr + 1)}} : TRUE

SeqMin(s, dflt) ==
  IF s = <<>> THEN dflt
  ELSE LET m == CHOOSE x \in {s[i] : i \in 1..Len(s)} :
                   \A j \in 1..Len(s) : x <= s[j]
       IN IF m < dflt THEN m ELSE dflt

\* update_lcobject_firetime (lco): recompute the smudged states of the
\* lcs_first chain, tim_first becomes the least tim_next (MAX_TIME_T if none)
update_lcobject_firetime(lco, now) ==
  LET n    == Len(lco.lst)
      from == Pos(lco.lcs_first, n)
      upd(i) == IF i >= from /\ lco.lst[i].tim_next = 0
                THEN [lco.lst[i] EXCEPT !.tim_next = update_lcstate_firetime(lco.lst[i], now)]
                ELSE lco.lst[i]
      lst2 == [i \in 1..n |-> upd(i)]
  IN [lco EXCEPT
        !.lst = lst2,
        !.tim_first = SeqMin([k \in 1..(n + 1 - from) |-> lst2[from + k - 1].tim_next],
                             MAX_TIME_T)]

\* smudge_lcstate_firetime (lcs, lco) for the node i of lco
smudge_lcstate_firetime(lco, i) ==
  IF lco.lst[i].tim_next # 0
  THEN [lco EXCEPT
          !.tim_first = IF lco.lst[i].tim_next = lco.tim_first THEN 0 ELSE @,
          !.lst[i].tim_next = 0]
  ELSE lco

(***************************************************************************)
(* Event exchange                                                          *)
(***************************************************************************)
\* the scan of advance_lcstate_events over the words before the cursor:
\* TRUE when a word with the identifier at evt is found before next
RECURSIVE trig_scan(_, _, _, _, _)
trig_scan(txt, trig, next, evt, evtlen) ==
  IF CharAt(txt, trig) # " " THEN FALSE
  ELSE LET t1 == trig + 1
       IN IF t1 >= next THEN FALSE
          ELSE IF /\ idlenAt(txt, t1) = evtlen
                  /\ SubSeq(txt, t1 + 1, t1 + evtlen) = SubSeq(txt, evt + 1, evt + evtlen)
               THEN TRUE
               ELSE IF CharAt(txt, t1) # "."
                    THEN trig_scan(txt, strchrnul(txt, t1, " "), next, evt, evtlen)
                    ELSE trig_scan(txt, t1, next, evt, evtlen)

\* the while loop of advance_lcstate_events for node i of lco; the result
\* is the object, the return value, and whether assert (src [srclen] ==
\* '@') failed
RECURSIVE advance_loop(_, _, _)
advance_loop(lco, i, retval) ==
  LET lcs    == lco.lst[i]
      txt    == lcs.txt
      src    == lcs.ofs_next
      srclen == idlenAt(txt, src)
      \* the search compares the state's own name on every round
      match  == idlen(txt) = srclen /\ strncmpEq(txt, Tail0(txt, src), srclen)
      other  == IF match THEN lco.lcs_first ELSE NULL
      evt    == src + srclen + 1
      didsth == IF other = NULL THEN TRUE
                ELSE trig_scan(txt, strchrnul(txt, 0, " "), src, evt, idlenAt(txt, evt))
      sp     == strchrnul(txt, src, " ")
      next   == IF CharAt(txt, sp) = " " THEN sp + 1 ELSE sp
      moved  == smudge_lcstate_firetime([lco EXCEPT !.lst[i].ofs_next = next], i)
  IN IF lcs.typ_next # "?" THEN [lco |-> lco, ret |-> FALSE, fault |-> FALSE]
     ELSE IF CharAt(txt, src + srclen) # "@"
          THEN [lco |-> lco, ret |-> FALSE, fault |-> TRUE]
          ELSE IF didsth THEN advance_loop(moved, i, TRUE)
               ELSE [lco |-> lco, ret |-> retval, fault |-> FALSE]

\* advance_lcstate_events (lcs, lco)
advance_lcstate_events(lco, i) == advance_loop(lco, i, FALSE)

\* one pass of advance_lcobject_events over the lcs_first chain from node
\* i on; didsth is overwritten by every state
RECURSIVE advance_pass(_, _, _)
advance_pass(lco, i, didsth) ==
  IF i = NULL THEN [lco |-> lco, ret |-> didsth, fault |-> FALSE]
  ELSE LET r == advance_lcstate_events(lco, i)
       IN IF r.fault THEN r
          ELSE advance_pass(r.lco, NextPtr(r.lco.lst, i), r.ret)

\* advance_lcobject_events (lco)
RECURSIVE advance_lcobject_loop(_, _)
advance_lcobject_loop(lco, retval) ==
  LET r == advance_pass(lco, lco.lcs_first, FALSE)
  IN IF r.fault THEN r
     ELSE IF r.ret THEN advance_lcobject_loop(r.lco, TRUE)
          ELSE [lco |-> r.lco, ret |-> retval, fault |-> FALSE]

advance_lcobject_events(lco) == advance_lcobject_loop(lco, FALSE)

\* service_advance_events (lce): every object of the list in turn
RECURSIVE service_advance_events(_, _)
service_advance_events(objs, k) ==
  IF k > Len(objs) THEN [objs |-> objs, fault |-> FALSE]
  ELSE LET r == advance_lcobject_events(objs[k])
       IN IF r.fault THEN [objs |-> objs, fault |-> TRUE]
          ELSE service_advance_events([objs EXCEPT ![k] = r.lco], k + 1)

(***************************************************************************)
(* Service thread: firing and the partial sort                             *)
(***************************************************************************)
\* the first lcdriver whose cmdname is the life cycle name of txt, 0 if none
find_lcdriver(drv, txt) ==
  LET hits == {k \in 1..Len(drv) : strmemcmp(drv[k], txt, idlen(txt)) = 0}
  IN IF hits = {} THEN 0 ELSE CHOOSE k \in hits : \A j \in hits : k <= j

\* service_fire_timer (lco, lce): the records written, in order, each the
\* driver and the two lines; fault when assert (fired_some_lcstate_timer)
\* fails
RECURSIVE fire_from(_, _, _)
fire_from(lco, drv, i) ==
  IF i = NULL THEN <<>>
  ELSE LET lcs == lco.lst[i]
           lcd == find_lcdriver(drv, lcs.txt)
       IN (IF lcs.typ_next = "@" /\ lcs.tim_next <= lco.tim_first /\ lcd # 0
           THEN <<[lcd |-> lcd, dn |-> lco.dn, attr |-> lcs.txt]>>
           ELSE <<>>)
          \o fire_from(lco, drv, NextPtr(lco.lst, i))

service_fire_timer(lco, drv) ==
  LET recs == fire_from(lco, drv, lco.lcs_first)
  IN [recs |-> recs, fault |-> recs = <<>>]

\* a first loop of service_update_timers that updates the fire times and
\* leaves every lcobject where it is
sort_loop_inplace(objs, p, accept_upto, now, seen) ==
  [objs |-> [k \in 1..Len(objs) |->
               IF objs[k].tim_first = 0 THEN update_lcobject_firetime(objs[k], now)
               ELSE objs[k]],
   accept_upto |-> accept_upto, ends |-> TRUE]

\* the first loop of service_update_timers from the link ptl on.  Link p is
\* lco_first for p = 0 and the lco_next of object p otherwise; cur is the
\* object behind link p.  "seen" holds the configurations this run has
\* been in: coming back to one means the loop does not end.
RECURSIVE sort_loop(_, _, _, _, _)
sort_loop(objs, p, accept_upto, now, seen) ==
  IF p >= Len(objs) THEN [objs |-> objs, accept_upto |-> accept_upto, ends |-> TRUE]
  ELSE IF <<objs, p, accept_upto>> \in seen
       THEN [objs |-> objs, accept_upto |-> accept_upto, ends |-> FALSE]
  ELSE
    LET cur0   == objs[p + 1]
        cur    == IF cur0.tim_first = 0 THEN update_lcobject_firetime(cur0, now) ELSE cur0
        future == cur.tim_first - now
        use    == cur.tim_first <= now \/ future <= accept_upto
        acc2   == IF cur.tim_first > now /\ future <= accept_upto
                     /\ future < accept_upto \div 2
                  THEN future * 2 ELSE accept_upto
        rest   == RemoveAt(objs, p + 1)
        later  == {k \in 0..(Len(rest) - 1) : rest[k + 1].tim_first > cur.tim_first}
        cmp    == IF later = {} THEN Len(rest)
                  ELSE CHOOSE k \in later : \A j \in later : k <= j
        seen2  == seen \cup {<<objs, p, accept_upto>>}
    IN IF use
       THEN sort_loop(InsertAt(rest, cmp + 1, cur),
                      IF cmp <= p THEN p + 1 ELSE p, acc2, now, seen2)
       ELSE sort_loop([objs EXCEPT ![p + 1] = cur], p + 1, accept_upto, now, seen2)

(***************************************************************************)
(* State                                                                   *)
(***************************************************************************)
\* the number of lcenv instances opened by pulleyback_open
NEnv == 3

\* the largest number of lcstate nodes one lcobject is let to hold
MaxLcs == 2

\* the largest value the clock is let to reach
MaxClock == 2

Envs == 1..NEnv

\* the lcenvs that the specifications with many entry points call: all but
\* the last one
Peers == 1..(NEnv - 1)

VARIABLES
  lco_first,     \* per lcenv: the lcobject list, in lco_next order
  env_txncycle,  \* per lcenv: the next lcenv of its transaction cycle, or NULL
  lce_flags,     \* per lcenv: subset of {"LCE_ABORTED", "LCE_SERVICED"}
  pth_envown,    \* per lcenv: who holds the mutex: "free", "pulley", "service"
  lcd_cmds,      \* per lcenv: the cmdname of every lcdriver, in order
  svc,           \* per lcenv: the service thread: where it is and its locals
  clock,         \* what time (NULL) returns
  fault,         \* "none", or the assertion that aborted the process
  pipe,          \* per lcenv: the last service_fire_timer call: object, records
  last,          \* the last pulleyback call: entry point, lcenv(s), return value
  h_snap,        \* history: per lcenv, the committed pairs when it last was at rest
  h_expect,      \* history: per lcenv, the pairs the calls of the transaction ask for
  h_reset,       \* history: per lcenv, whether reset was called in the transaction
  h_merged,      \* history: the lcenv pairs merged by collaborate and not ended since
  adv,           \* the last advance_lcstate_events or advance_lcobject_events
                 \* call: object before and after, node, result, and how many
                 \* advance_lcobject_events calls saw the object unchanged
  parsed         \* the last parse_der call on its own: string, octets, result

vars == <<lco_first, env_txncycle, lce_flags, pth_envown, lcd_cmds, svc, clock,
          fault, pipe, last, h_snap, h_expect, h_reset, h_merged, adv, parsed>>

\* the (distinguishedName, lifecycleState) pairs of the lcs_first chains
Pairs(objs) ==
  UNION {{<<objs[k].dn, Committed(objs[k])[i].txt>> : i \in 1..Len(Committed(objs[k]))} :
           k \in 1..Len(objs)}

\* the part of the state that the transaction functions work on
World ==
  [lco |-> lco_first, cyc |-> env_txncycle, flags |-> lce_flags,
   mtx |-> pth_envown, svc |-> svc, fault |-> fault]

Store(W) ==
  /\ lco_first' = W.lco
  /\ env_txncycle' = W.cyc
  /\ lce_flags' = W.flags
  /\ pth_envown' = W.mtx
  /\ svc' = W.svc
  /\ fault' = W.fault

(***************************************************************************)
(* Transaction support                                                     *)
(***************************************************************************)
txn_isactive(W, lce) == W.cyc[lce] # NULL

txn_isaborted(W, lce) == "LCE_ABORTED" \in W.flags[lce]

\* txn_isaborted_set (lce)
txn_isaborted_set(W, lce) ==
  IF txn_isactive(W, lce) THEN [W EXCEPT !.fault = "assert txn_isaborted_set"]
  ELSE [W EXCEPT !.flags[lce] = @ \cup {"LCE_ABORTED"}]

\* txn_isaborted_clr (lce)
txn_isaborted_clr(W, lce) ==
  IF txn_isactive(W, lce) THEN [W EXCEPT !.fault = "assert txn_isaborted_clr"]
  ELSE [W EXCEPT !.flags[lce] = @ \ {"LCE_ABORTED"}]

\* txn_open, one lcobject
open_lcobject(lco) == [lco EXCEPT !.lcs_toadd = lco.lcs_first]

\* a txn_open that leaves out pthread_mutex_lock
txn_open_unlocked(W, lce) ==
  IF txn_isactive(W, lce) \/ txn_isaborted(W, lce)
  THEN [W EXCEPT !.fault = "assert txn_open"]
  ELSE [W EXCEPT
          !.cyc[lce] = lce,
          !.lco[lce] = [k \in 1..Len(W.lco[lce]) |-> open_lcobject(W.lco[lce][k])]]

\* txn_open (lce), once the mutex has been obtained
txn_open(W, lce) ==
  IF txn_isactive(W, lce) \/ txn_isaborted(W, lce)
  THEN [W EXCEPT !.fault = "assert txn_open"]
  ELSE IF \E k \in 1..Len(W.lco[lce]) :
            W.lco[lce][k].lcs_toadd # NULL \/ W.lco[lce][k].lcs_todel # NULL
       THEN [W EXCEPT !.fault = "assert txn_open staged", !.mtx[lce] = "pulley",
                      !.cyc[lce] = lce]
       ELSE [W EXCEPT
               !.mtx[lce] = "pulley",
               !.cyc[lce] = lce,
               !.lco[lce] = [k \in 1..Len(W.lco[lce]) |-> open_lcobject(W.lco[lce][k])]]

\* a txn_break that leaves lcs_toadd at lcs_first, as txn_open had set it
break_lcobject_staged(lco) ==
  LET n    == Len(lco.lst)
      keep == SubSeq(lco.lst, Pos(lco.lcs_first, n), n)
  IN [lco EXCEPT
        !.lst = keep,
        !.lcs_first = IF keep = <<>> THEN NULL ELSE 1,
        !.lcs_toadd = IF keep = <<>> THEN NULL ELSE 1,
        !.lcs_todel = NULL]

\* txn_break, one lcobject: free the nodes from lcs_toadd up to lcs_first,
\* forget both stage pointers
break_lcobject(lco) ==
  LET n    == Len(lco.lst)
      keep == SubSeq(lco.lst, Pos(lco.lcs_first, n), n)
  IN [lco EXCEPT
        !.lst = keep,
        !.lcs_first = IF keep = <<>> THEN NULL ELSE 1,
        !.lcs_toadd = NULL,
        !.lcs_todel = NULL]

\* txn_break (lce): every lcenv of the cycle in turn
RECURSIVE break_cycle(_, _)
break_cycle(W, lce) ==
  IF W.fault # "none" \/ W.cyc[lce] = NULL THEN W
  ELSE LET txnext == W.cyc[lce]
           W1 == [W EXCEPT
                    !.cyc[lce] = NULL,
                    !.lco[lce] = [k \in 1..Len(W.lco[lce]) |-> break_lcobject(W.lco[lce][k])]]
           W2 == txn_isaborted_set(W1, lce)
       IN IF W2.fault # "none" THEN W2
          ELSE break_cycle([W2 EXCEPT !.mtx[lce] = "free"], txnext)

\* a txn_break that raises the aborted flag before it takes the cycle apart
txn_break_flagfirst(W, lce) ==
  IF ~txn_isactive(W, lce) THEN [W EXCEPT !.fault = "assert txn_break"]
  ELSE LET W1 == txn_isaborted_set(W, lce)
       IN IF W1.fault # "none" THEN W1 ELSE break_cycle(W1, lce)

txn_break(W, lce) ==
  IF ~txn_isactive(W, lce) THEN [W EXCEPT !.fault = "assert txn_break"]
  ELSE break_cycle(W, lce)

\* txn_done, one lcobject: cut the chain at lcs_todel and free that tail,
\* what starts at lcs_toadd is the new lcs_first
done_lcobject(lco) ==
  LET keep == SubSeq(lco.lst, Pos(lco.lcs_toadd, Len(lco.lst)),
                     Pos(lco.lcs_todel, Len(lco.lst)) - 1)
  IN [lco EXCEPT
        !.lst = keep,
        !.lcs_first = IF keep = <<>> THEN NULL ELSE 1,
        !.lcs_toadd = NULL,
        !.lcs_todel = NULL]

\* the objects that txn_done keeps: those with a state left
RECURSIVE done_lcobjects(_)
done_lcobjects(objs) ==
  IF objs = <<>> THEN <<>>
  ELSE LET lco == done_lcobject(Head(objs))
       IN (IF lco.lcs_first = NULL THEN <<>> ELSE <<lco>>) \o done_lcobjects(Tail(objs))

\* pthread_cond_signal (&lce->pth_sigpost): a waiting service thread is
\* woken and has to take the mutex again; nothing is kept otherwise
cond_signal(s) ==
  IF s.pc \in {"wait", "timedwait"} THEN [s EXCEPT !.pc = "woken"] ELSE s

\* txn_done (lce): every lcenv of the cycle in turn
RECURSIVE done_cycle(_, _)
done_cycle(W, lce) ==
  IF W.cyc[lce] = NULL THEN W
  ELSE LET txnext == W.cyc[lce]
       IN done_cycle([W EXCEPT
                        !.cyc[lce] = NULL,
                        !.lco[lce] = done_lcobjects(@),
                        !.svc[lce] = cond_signal(@),
                        !.mtx[lce] = "free"],
                     txnext)

txn_done(W, lce) ==
  IF ~txn_isactive(W, lce) THEN [W EXCEPT !.fault = "assert txn_done"]
  ELSE done_cycle(W, lce)

\* a txn_emptydata that empties the committed stretch only: lcs_todel is
\* left where it is
empty_lcobject_first(lco) ==
  [lco EXCEPT !.lcs_first = lco.lcs_toadd]

\* txn_emptydata, one lcobject
empty_lcobject(lco) ==
  [lco EXCEPT !.lcs_todel = lco.lcs_toadd, !.lcs_first = lco.lcs_toadd]

\* txn_emptydata (lce)
txn_emptydata(W, lce) ==
  IF ~txn_isactive(W, lce) THEN [W EXCEPT !.fault = "assert txn_emptydata"]
  ELSE [W EXCEPT
          !.lco[lce] = [k \in 1..Len(W.lco[lce]) |-> empty_lcobject(W.lco[lce][k])]]

(***************************************************************************)
(* Pulley backend entry points                                             *)
(***************************************************************************)
\* what _int_pb_addnotdel checks before it touches any object: both
\* values parse, hold no NUL character and pass their grammar
InputOk(d, t) ==
  /\ parse_der(der_dn[d]).ok
  /\ parse_der(der_at[t]).ok
  /\ memchr_none(DnText[d])
  /\ memchr_none(LcsText[t])
  /\ grammar_dn(DnText[d])
  /\ grammar_lcstate(LcsText[t])

\* _int_pb_addnotdel (add_not_del, lce, fd) with fd = (DnText[d], LcsText[t]);
\* the result is the new state and the return value
addnotdel_body(W, add_not_del, lce, d, t) ==
  LET objs == W.lco[lce]
      k    == find_lcobject(objs, d)
      plcs == IF k # NULL
              THEN find_lcstate_ptr(objs[k].lst, objs[k].lcs_toadd, objs[k].lcs_todel, t)
              ELSE NULL
      \* addition: an unknown distinguishedName gets an lcobject first
      objs2 == IF k = NULL THEN <<new_lcobject(d)>> \o objs ELSE objs
      k2    == IF k = NULL THEN 1 ELSE k
  IN IF ~InputOk(d, t) THEN [w |-> txn_break(W, lce), ret |-> 0]
     ELSE IF add_not_del
          THEN IF plcs = NULL
               THEN [w |-> [W EXCEPT !.lco[lce] = [objs2 EXCEPT ![k2] = new_lcstate(objs2[k2], t)]],
                     ret |-> 1]
               ELSE [w |-> txn_break([W EXCEPT !.lco[lce] = objs2], lce), ret |-> 0]
          ELSE IF k # NULL /\ plcs # NULL
               THEN [w |-> [W EXCEPT !.lco[lce] = [objs EXCEPT ![k] = del_lcstate(objs[k], plcs)]],
                     ret |-> 1]
               ELSE [w |-> txn_break(W, lce), ret |-> 0]

\* an _int_pb_addnotdel without the test of txn_isaborted at its start
int_pb_addnotdel_unaware(W, add_not_del, lce, d, t) ==
  LET W1 == IF ~txn_isactive(W, lce) THEN txn_open(W, lce) ELSE W
  IN IF W1.fault # "none" THEN [w |-> W1, ret |-> 0]
     ELSE addnotdel_body(W1, add_not_del, lce, d, t)

int_pb_addnotdel(W, add_not_del, lce, d, t) ==
  IF txn_isaborted(W, lce) THEN [w |-> W, ret |-> 0]
  ELSE LET W1 == IF ~txn_isactive(W, lce) THEN txn_open(W, lce) ELSE W
       IN IF W1.fault # "none" THEN [w |-> W1, ret |-> 0]
          ELSE addnotdel_body(W1, add_not_del, lce, d, t)

\* pulleyback_reset
pulleyback_reset(W, lce) ==
  IF ~txn_isactive(W, lce) THEN [w |-> W, ret |-> 0]
  ELSE [w |-> txn_emptydata(W, lce), ret |-> 1]

\* a pulleyback_prepare that always says yes
pulleyback_prepare_yes(W, lce) == [w |-> W, ret |-> 1]

\* pulleyback_prepare
pulleyback_prepare(W, lce) ==
  [w |-> W, ret |-> IF txn_isaborted(W, lce) THEN 0 ELSE 1]

\* a pulleyback_commit that leaves the aborted flag as it is
pulleyback_commit_lingers(W, lce) ==
  IF txn_isaborted(W, lce) THEN [w |-> W, ret |-> 0]
  ELSE IF txn_isactive(W, lce) THEN [w |-> txn_done(W, lce), ret |-> 1]
  ELSE [w |-> W, ret |-> 1]

\* pulleyback_commit
pulleyback_commit(W, lce) ==
  IF txn_isaborted(W, lce) THEN [w |-> txn_isaborted_clr(W, lce), ret |-> 0]
  ELSE IF txn_isactive(W, lce) THEN [w |-> txn_done(W, lce), ret |-> 1]
  ELSE [w |-> W, ret |-> 1]

\* a pulleyback_rollback that does not clear the aborted flag
pulleyback_rollback_lingers(W, lce) ==
  [w |-> IF txn_isactive(W, lce) THEN txn_break(W, lce) ELSE W, ret |-> 1]

\* pulleyback_rollback
pulleyback_rollback(W, lce) ==
  LET W1 == IF txn_isactive(W, lce) THEN txn_break(W, lce) ELSE W
  IN [w |-> IF W1.fault # "none" THEN W1 ELSE txn_isaborted_clr(W1, lce), ret |-> 1]

\* a pulleyback_collaborate that breaks nothing when one of the two is
\* aborted
pulleyback_collaborate_lenient(W, lce1, lce2) ==
  IF ~(txn_isactive(W, lce1) \/ txn_isaborted(W, lce1))
     \/ ~(txn_isactive(W, lce2) \/ txn_isaborted(W, lce2))
  THEN [w |-> [W EXCEPT !.fault = "assert pulleyback_collaborate"], ret |-> 1]
  ELSE IF txn_isaborted(W, lce1) \/ txn_isaborted(W, lce2) THEN [w |-> W, ret |-> 1]
       ELSE LET one1 == W.cyc[lce1]
                one2 == W.cyc[lce2]
                two1 == W.cyc[one1]
                two2 == W.cyc[one2]
                c1 == [W.cyc EXCEPT ![one1] = two2]
            IN [w |-> [W EXCEPT !.cyc = [c1 EXCEPT ![one2] = two1]], ret |-> 0]

\* pulleyback_collaborate
pulleyback_collaborate(W, lce1, lce2) ==
  IF ~(txn_isactive(W, lce1) \/ txn_isaborted(W, lce1))
     \/ ~(txn_isactive(W, lce2) \/ txn_isaborted(W, lce2))
  THEN [w |-> [W EXCEPT !.fault = "assert pulleyback_collaborate"], ret |-> 1]
  ELSE IF txn_isaborted(W, lce1)
       THEN IF txn_isaborted(W, lce2) THEN [w |-> W, ret |-> 1]
            ELSE [w |-> txn_break(W, lce2), ret |-> 1]
       ELSE IF txn_isaborted(W, lce2) THEN [w |-> txn_break(W, lce1), ret |-> 1]
            ELSE LET one1 == W.cyc[lce1]
                     one2 == W.cyc[lce2]
                     two1 == W.cyc[one1]
                     two2 == W.cyc[one2]
                     \* one1->env_txncycle = two2, then one2->env_txncycle = two1
                     c1 == [W.cyc EXCEPT ![one1] = two2]
                 IN [w |-> [W EXCEPT !.cyc = [c1 EXCEPT ![one2] = two1]], ret |-> 0]

\* service_stop (lce) up to pthread_join: LCE_SERVICED is cleared, and with
\* the mutex taken and released again the service thread is signalled
service_stop(W, lce) ==
  IF "LCE_SERVICED" \notin W.flags[lce] THEN [W EXCEPT !.fault = "assert service_stop"]
  ELSE [W EXCEPT !.flags[lce] = @ \ {"LCE_SERVICED"}, !.svc[lce] = cond_signal(@)]

\* pulleyback_close (pbh) up to the pthread_join of service_stop
pulleyback_close(W, lce) ==
  LET W1 == IF txn_isactive(W, lce) THEN txn_break(W, lce) ELSE W
  IN [w |-> IF W1.fault # "none" THEN W1 ELSE service_stop(W1, lce), ret |-> 1]

(***************************************************************************)
(* The upstream (Pulley) thread: one action per entry point.  A call that  *)
(* has to open a transaction waits in txn_open for the mutex, so it is     *)
(* taken when the mutex is free.                                           *)
(***************************************************************************)
\* the lcenv reached from lce along env_txncycle
RECURSIVE CycleFrom(_, _, _)
CycleFrom(cyc, lce, acc) ==
  IF lce = NULL \/ lce \in acc THEN acc
  ELSE CycleFrom(cyc, cyc[lce], acc \cup {lce})

Ring(cyc, lce) == CycleFrom(cyc, lce, {})

\* an add or del that finds no transaction and no abort opens one
Opens(op, lce) ==
  /\ op \in {"add", "del"}
  /\ env_txncycle[lce] = NULL
  /\ "LCE_ABORTED" \notin lce_flags[lce]

\* the call op on lce (and lce2, d, t where it has them) with result r
Called(op, lce, lce2, d, t, r) ==
  LET pair == <<DnText[d], LcsText[t]>>
      base == IF Opens(op, lce) THEN Pairs(lco_first[lce]) ELSE h_expect[lce]
      done == IF op = "commit" /\ env_txncycle[lce] # NULL /\ r.ret = 1
              THEN Ring(env_txncycle, lce) ELSE {}
      join == IF op = "collaborate" /\ r.ret = 0 THEN {{lce, lce2}} ELSE {}
      \* the pair is live: among lcs_toadd .. lcs_todel of an open
      \* transaction, or committed when there is none
      k    == find_lcobject(lco_first[lce], d)
      live == IF k = NULL THEN FALSE
              ELSE LET lco == lco_first[lce][k]
                   IN IF env_txncycle[lce] # NULL
                      THEN find_lcstate_ptr(lco.lst, lco.lcs_toadd, lco.lcs_todel, t) # NULL
                      ELSE find_lcstate_ptr(lco.lst, lco.lcs_first, NULL, t) # NULL
      \* what a commit in place of this call would have left
      alone == pulleyback_commit(World, lce).w.lco[lce]
      \* add of a valid pair that is not live, del of the same pair, commit
      seq  == IF op = "add" /\ "LCE_ABORTED" \notin lce_flags[lce] /\ InputOk(d, t) /\ ~live
              THEN 1
              ELSE IF op = "del" /\ last.seq = 1 /\ <<lce, d, t>> = <<last.lce, last.d, last.t>>
              THEN 2
              ELSE IF op = "commit" /\ last.seq = 2 /\ lce = last.lce
              THEN 3
              ELSE 0
  IN /\ fault = "none"
     \* the upstream is not inside pulleyback_close, the lcenv is not freed
     /\ \A x \in Envs : "LCE_SERVICED" \in lce_flags[x] \/ pth_envown[x] = "destroyed"
     /\ pth_envown[lce] # "destroyed"
     /\ Store(r.w)
     /\ last' = [op |-> op, lce |-> lce, lce2 |-> lce2, d |-> d, t |-> t, ret |-> r.ret,
                 active |-> env_txncycle[lce] # NULL,
                 aborted |-> "LCE_ABORTED" \in lce_flags[lce],
                 ring |-> Ring(env_txncycle, lce),
                 ring2 |-> IF lce2 = NULL THEN {} ELSE Ring(env_txncycle, lce2),
                 merged |-> h_merged,
                 seq |-> seq,
                 rets |-> IF seq = 0 THEN <<>>
                          ELSE IF seq = 1 THEN <<r.ret>>
                          ELSE Append(last.rets, r.ret),
                 alone |-> IF seq = 0 THEN <<>>
                           ELSE IF seq = 1
                           THEN <<[k2 \in 1..Len(alone) |-> alone[k2].dn], Pairs(alone)>>
                           ELSE last.alone]
     /\ h_snap' = [x \in Envs |->
                     IF x = lce /\ Opens(op, lce) THEN Pairs(lco_first[x])
                     ELSE IF x \in done THEN Pairs(r.w.lco[x])
                     ELSE h_snap[x]]
     /\ h_expect' = [h_expect EXCEPT ![lce] =
                       IF op = "add" /\ r.ret = 1 THEN base \cup {pair}
                       ELSE IF op = "del" /\ r.ret = 1 THEN base \ {pair}
                       ELSE IF op = "reset" /\ r.ret = 1 THEN {}
                       ELSE base]
     /\ h_reset' = [h_reset EXCEPT ![lce] =
                      IF Opens(op, lce) THEN FALSE
                      ELSE IF op = "reset" /\ r.ret = 1 THEN TRUE
                      ELSE @]
     /\ h_merged' = {pr \in h_merged \cup join :
                       \A x \in pr : env_txncycle[x] # NULL /\ r.w.cyc[x] # NULL}
     /\ UNCHANGED <<lcd_cmds, clock, pipe, adv, parsed>>

\* the mutex is there for the call to take, or the call does not take it
CanEnter(op, lce) == Opens(op, lce) => pth_envown[lce] = "free"

\* the model's bound on the nodes of one lcobject
Room(lce, d) ==
  LET k == find_lcobject(lco_first[lce], d)
  IN IF k = NULL THEN TRUE ELSE Len(lco_first[lce][k].lst) < MaxLcs

Add(lce, d, t) ==
  /\ CanEnter("add", lce)
  /\ Room(lce, d)
  /\ Called("add", lce, NULL, d, t, int_pb_addnotdel(World, TRUE, lce, d, t))

Del(lce, d, t) ==
  /\ CanEnter("del", lce)
  /\ Called("del", lce, NULL, d, t, int_pb_addnotdel(World, FALSE, lce, d, t))

Reset(lce) == Called("reset", lce, NULL, 0, 0, pulleyback_reset(World, lce))

Prepare(lce) == Called("prepare", lce, NULL, 0, 0, pulleyback_prepare(World, lce))

Commit(lce) == Called("commit", lce, NULL, 0, 0, pulleyback_commit(World, lce))

Rollback(lce) == Called("rollback", lce, NULL, 0, 0, pulleyback_rollback(World, lce))

\* the upstream calls collaborate on transactions it has going: each lcenv
\* is active or aborted
Collaborate(lce1, lce2) ==
  /\ lce1 # lce2
  /\ pth_envown[lce2] # "destroyed"
  /\ IF env_txncycle[lce1] # NULL THEN TRUE ELSE "LCE_ABORTED" \in lce_flags[lce1]
  /\ IF env_txncycle[lce2] # NULL THEN TRUE ELSE "LCE_ABORTED" \in lce_flags[lce2]
  /\ Called("collaborate", lce1, lce2, 0, 0, pulleyback_collaborate(World, lce1, lce2))

\* pulleyback_close until it waits in pthread_join: service_stop takes the
\* mutex once txn_break, or the service thread, has released it
Close(lce) ==
  /\ IF env_txncycle[lce] # NULL THEN TRUE ELSE pth_envown[lce] = "free"
  /\ Called("close", lce, NULL, 0, 0, pulleyback_close(World, lce))

\* the service thread has left: pthread_join returns, service_stop destroys
\* the condition and the mutex, pulleyback_close frees the lcobjects, the
\* lcdrivers and the lcenv.  The pthread_mutex_unlock before the destroy is
\* on a mutex that nobody holds: it returns 0, or an error that fails the
\* assertion around it.
CloseJoin(lce) ==
  /\ fault = "none"
  /\ "LCE_SERVICED" \notin lce_flags[lce]
  /\ pth_envown[lce] = "free"
  /\ svc[lce].pc = "exit"
  /\ \E unlocked \in BOOLEAN :
        IF unlocked
        THEN /\ pth_envown' = [pth_envown EXCEPT ![lce] = "destroyed"]
             /\ lco_first' = [lco_first EXCEPT ![lce] = <<>>]
             /\ lcd_cmds' = [lcd_cmds EXCEPT ![lce] = <<>>]
             /\ fault' = fault
        ELSE /\ fault' = "assert pthread_mutex_unlock"
             /\ UNCHANGED <<pth_envown, lco_first, lcd_cmds>>
  /\ UNCHANGED <<env_txncycle, lce_flags, svc, clock, pipe, last, h_snap, h_expect,
                 h_reset, h_merged, adv, parsed>>

(***************************************************************************)
(* The service thread of an lcenv (service_main)                           *)
(***************************************************************************)
\* the locals of a service thread that is not inside service_update_timers
Idle(pc) == [pc |-> pc, now |-> 0, accept_upto |-> 0, lco |-> NULL, abstime |-> 0]

\* while (lce->lce_flags & LCE_SERVICED), with the mutex held: go round
\* again, or unlock and leave
LoopTest(lce) ==
  IF "LCE_SERVICED" \in lce_flags[lce]
  THEN /\ svc' = [svc EXCEPT ![lce] = Idle("advance")]
       /\ pth_envown' = [pth_envown EXCEPT ![lce] = "service"]
  ELSE /\ svc' = [svc EXCEPT ![lce] = Idle("exit")]
       /\ pth_envown' = [pth_envown EXCEPT ![lce] = "free"]

\* service_main takes the mutex for the first time
ServiceStart(lce) ==
  /\ fault = "none"
  /\ svc[lce].pc = "start"
  /\ pth_envown[lce] = "free"
  /\ LoopTest(lce)
  /\ UNCHANGED <<lco_first, env_txncycle, lce_flags, lcd_cmds, clock, fault, pipe,
                 last, h_snap, h_expect, h_reset, h_merged, adv, parsed>>

\* service_advance_events, then service_update_timers reads the time
ServiceAdvance(lce) ==
  LET r == service_advance_events(lco_first[lce], 1)
  IN /\ fault = "none"
     /\ svc[lce].pc = "advance"
     /\ IF r.fault
        THEN /\ fault' = "assert advance_lcstate_events"
             /\ UNCHANGED <<lco_first, svc>>
        ELSE /\ fault' = fault
             /\ lco_first' = [lco_first EXCEPT ![lce] = r.objs]
             /\ svc' = [svc EXCEPT ![lce] = [Idle("update") EXCEPT !.now = clock]]
     /\ UNCHANGED <<env_txncycle, lce_flags, pth_envown, lcd_cmds, clock, pipe,
                    last, h_snap, h_expect, h_reset, h_merged, adv, parsed>>

\* service_update_timers from the label refresh to the end of the first loop
ServiceSort(lce) ==
  LET r == sort_loop(lco_first[lce], 0, ACCEPT_UPTO_INIT, svc[lce].now, {})
  IN /\ fault = "none"
     /\ svc[lce].pc = "update"
     /\ IF r.ends
        THEN /\ lco_first' = [lco_first EXCEPT ![lce] = r.objs]
             /\ svc' = [svc EXCEPT ![lce] =
                          [@ EXCEPT !.pc = "fire", !.accept_upto = r.accept_upto,
                                    !.lco = IF r.objs = <<>> THEN NULL ELSE 1]]
        ELSE /\ svc' = [svc EXCEPT ![lce] = [@ EXCEPT !.pc = "spin"]]
             /\ UNCHANGED lco_first
     /\ UNCHANGED <<env_txncycle, lce_flags, pth_envown, lcd_cmds, clock, fault, pipe,
                    last, h_snap, h_expect, h_reset, h_merged, adv, parsed>>

\* service_wait: the condition wait releases the mutex; with a timer when
\* the first object has one
service_wait(lce) ==
  LET first_expiration == IF lco_first[lce] # <<>> THEN lco_first[lce][1].tim_first
                          ELSE MAX_TIME_T
  IN /\ svc' = [svc EXCEPT ![lce] =
                  IF first_expiration < MAX_TIME_T
                  THEN [Idle("timedwait") EXCEPT !.abstime = first_expiration]
                  ELSE Idle("wait")]
     /\ pth_envown' = [pth_envown EXCEPT ![lce] = "free"]

\* one round of the second loop of service_update_timers, and what
\* follows when it ends: the refresh, or the return and service_wait
ServiceFire(lce) ==
  LET newnow == clock
      cur    == svc[lce].lco
      lco    == lco_first[lce][cur]
      fired  == service_fire_timer(lco, lcd_cmds[lce])
      lco2   == update_lcobject_firetime(lco, clock)
  IN /\ fault = "none"
     /\ svc[lce].pc = "fire"
     /\ IF cur # NULL /\ lco.tim_first <= newnow
        THEN /\ pipe' = [pipe EXCEPT ![lce] = [lco |-> lco, recs |-> fired.recs]]
             /\ IF fired.fault
                THEN /\ fault' = "assert service_fire_timer"
                     /\ UNCHANGED <<lco_first, svc>>
                ELSE /\ fault' = fault
                     /\ lco_first' = [lco_first EXCEPT ![lce][cur] = lco2]
                     /\ svc' = [svc EXCEPT ![lce].lco =
                                  IF lco2.tim_first > newnow
                                  THEN NextPtr(lco_first[lce], cur) ELSE cur]
             /\ UNCHANGED pth_envown
        ELSE /\ IF newnow - svc[lce].now > svc[lce].accept_upto
                THEN /\ svc' = [svc EXCEPT ![lce] = [@ EXCEPT !.pc = "update", !.lco = NULL]]
                     /\ UNCHANGED pth_envown
                ELSE service_wait(lce)
             /\ UNCHANGED <<lco_first, fault, pipe>>
     /\ UNCHANGED <<env_txncycle, lce_flags, lcd_cmds, clock,
                    last, h_snap, h_expect, h_reset, h_merged, adv, parsed>>

\* the wait returns after a signal: the mutex is taken again, the loop
\* tests LCE_SERVICED
ServiceWake(lce) ==
  /\ fault = "none"
  /\ svc[lce].pc = "woken"
  /\ pth_envown[lce] = "free"
  /\ LoopTest(lce)
  /\ UNCHANGED <<lco_first, env_txncycle, lce_flags, lcd_cmds, clock, fault, pipe,
                 last, h_snap, h_expect, h_reset, h_merged, adv, parsed>>

\* pthread_cond_timedwait reaches abstime while a transaction holds the
\* mutex: the thread stops waiting for the condition and waits for the
\* mutex, where no signal reaches it
ServiceExpire(lce) ==
  /\ fault = "none"
  /\ svc[lce].pc = "timedwait"
  /\ clock >= svc[lce].abstime
  /\ pth_envown[lce] = "pulley"
  /\ svc' = [svc EXCEPT ![lce] = [@ EXCEPT !.pc = "timedout"]]
  /\ UNCHANGED <<lco_first, env_txncycle, lce_flags, pth_envown, lcd_cmds, clock, fault,
                 pipe, last, h_snap, h_expect, h_reset, h_merged, adv, parsed>>

\* pthread_cond_timedwait reaches abstime: it takes the mutex again and
\* returns ETIMEDOUT, which is inside assert (!...)
ServiceTimeout(lce) ==
  /\ fault = "none"
  /\ svc[lce].pc \in {"timedwait", "timedout"}
  /\ clock >= svc[lce].abstime
  /\ pth_envown[lce] = "free"
  /\ fault' = "assert pthread_cond_timedwait"
  /\ pth_envown' = [pth_envown EXCEPT ![lce] = "service"]
  /\ UNCHANGED <<lco_first, env_txncycle, lce_flags, lcd_cmds, svc, clock, pipe,
                 last, h_snap, h_expect, h_reset, h_merged, adv, parsed>>

\* time passes
Tick ==
  /\ fault = "none"
  /\ clock < MaxClock
  /\ clock' = clock + 1
  /\ UNCHANGED <<lco_first, env_txncycle, lce_flags, pth_envown, lcd_cmds, svc, fault,
                 pipe, last, h_snap, h_expect, h_reset, h_merged, adv, parsed>>

(***************************************************************************)
(* Initial state and the next-state relations                              *)
(***************************************************************************)
NoCall ==
  [op |-> "none", lce |-> NULL, lce2 |-> NULL, d |-> 0, t |-> 0, ret |-> 1,
   active |-> FALSE, aborted |-> FALSE, ring |-> {}, ring2 |-> {}, merged |-> {},
   seq |-> 0, rets |-> <<>>, alone |-> <<>>]

NoFire == [lco |-> new_lcobject(1), recs |-> <<>>]

NoAdvance ==
  [lco |-> new_lcobject(1), lcs |-> NULL, ofs_next |-> 0, ret |-> FALSE,
   calls |-> 0, out |-> new_lcobject(1)]

NoParse == [str |-> <<>>, der |-> <<>>, ok |-> FALSE, ptr |-> 0, len |-> 0]

\* the state after pulleyback_open of every lcenv with the drivers drv, the
\* service threads at pc
InitWith(drv, pc) ==
  /\ lco_first = [e \in Envs |-> <<>>]
  /\ env_txncycle = [e \in Envs |-> NULL]
  /\ lce_flags = [e \in Envs |-> {"LCE_SERVICED"}]
  /\ pth_envown = [e \in Envs |-> "free"]
  /\ lcd_cmds = [e \in Envs |-> drv]
  /\ svc = [e \in Envs |-> Idle(pc)]
  /\ clock = 1
  /\ fault = "none"
  /\ pipe = [e \in Envs |-> NoFire]
  /\ last = NoCall
  /\ h_snap = [e \in Envs |-> {}]
  /\ h_expect = [e \in Envs |-> {}]
  /\ h_reset = [e \in Envs |-> FALSE]
  /\ h_merged = {}
  /\ adv = NoAdvance
  /\ parsed = NoParse

Upstream(ES, DS, TS) ==
  \E lce \in ES :
     \/ \E d \in DS, t \in TS : Add(lce, d, t)
     \/ \E d \in DS, t \in TS : Del(lce, d, t)
     \/ Reset(lce)
     \/ Prepare(lce)
     \/ Commit(lce)
     \/ Rollback(lce)

Merge(ES) == \E lce1 \in ES, lce2 \in ES : Collaborate(lce1, lce2)

Service(ES) ==
  \E lce \in ES :
     \/ ServiceStart(lce)
     \/ ServiceAdvance(lce)
     \/ ServiceSort(lce)
     \/ ServiceFire(lce)
     \/ ServiceWake(lce)
     \/ ServiceExpire(lce)
     \/ ServiceTimeout(lce)

\* service_stop in the steps that the service thread can come between, on
\* an lcenv without a transaction.  First the assertion on LCE_SERVICED and
\* the clearing of the flag, without the mutex.
StopClear(lce) ==
  /\ fault = "none"
  /\ last.op # "stop"
  /\ env_txncycle[lce] = NULL
  /\ "LCE_SERVICED" \in lce_flags[lce]
  /\ lce_flags' = [lce_flags EXCEPT ![lce] = @ \ {"LCE_SERVICED"}]
  /\ last' = [NoCall EXCEPT !.op = "stop", !.lce = lce, !.seq = 1]
  /\ UNCHANGED <<lco_first, env_txncycle, pth_envown, lcd_cmds, svc, clock, fault, pipe,
                 h_snap, h_expect, h_reset, h_merged, adv, parsed>>

\* then pthread_mutex_lock, which waits until the mutex is free,
\* pthread_cond_signal and pthread_mutex_unlock; what follows is pthread_join
StopSignal(lce) ==
  /\ fault = "none"
  /\ last.op = "stop" /\ last.lce = lce /\ last.seq = 1
  /\ pth_envown[lce] = "free"
  /\ svc' = [svc EXCEPT ![lce] = cond_signal(@)]
  /\ last' = [last EXCEPT !.seq = 2]
  /\ UNCHANGED <<lco_first, env_txncycle, lce_flags, pth_envown, lcd_cmds, clock, fault,
                 pipe, h_snap, h_expect, h_reset, h_merged, adv, parsed>>

(***************************************************************************)
(* The functions of the service thread on their own: every lcobject that   *)
(* a commit can leave, the service thread inside its loop with the mutex,  *)
(* and advance_lcstate_events, update_lcobject_firetime and                *)
(* service_fire_timer applied in the order of service_main.                *)
(***************************************************************************)
\* the lcobject that adding the texts ts (the last one first) leaves
RECURSIVE staged_lcobject(_, _)
staged_lcobject(d, ts) ==
  IF ts = <<>> THEN new_lcobject(d)
  ELSE new_lcstate(staged_lcobject(d, Tail(ts)), Head(ts))

\* ... and what txn_done makes of it
committed_lcobject(d, ts) == done_lcobject(staged_lcobject(d, ts))

FunAdvance(lce, k, i) ==
  LET lco == lco_first[lce][k]
      r   == advance_lcstate_events(lco, i)
  IN /\ fault = "none"
     /\ svc[lce].pc = "advance"
     /\ i <= Len(lco_first[lce][k].lst)
     /\ adv' = [lco |-> lco, lcs |-> i, ofs_next |-> r.lco.lst[i].ofs_next, ret |-> r.ret,
                 calls |-> 0, out |-> r.lco]
     /\ fault' = IF r.fault THEN "assert advance_lcstate_events" ELSE fault
     /\ lco_first' = [lco_first EXCEPT ![lce][k] = r.lco]
     /\ UNCHANGED <<env_txncycle, lce_flags, pth_envown, lcd_cmds, svc, clock, pipe,
                    last, h_snap, h_expect, h_reset, h_merged, parsed>>

\* advance_lcobject_events on the lcobject k, as service_advance_events
\* calls it on every round of service_main
FunAdvanceObject(lce, k) ==
  LET lco == lco_first[lce][k]
      r   == advance_lcobject_events(lco)
  IN /\ fault = "none"
     /\ svc[lce].pc = "advance"
     /\ adv' = [lco |-> lco, lcs |-> NULL, ofs_next |-> 0, ret |-> r.ret,
                 calls |-> IF adv.calls > 0 /\ adv.out = lco THEN 2 ELSE 1,
                 out |-> r.lco]
     /\ fault' = IF r.fault THEN "assert advance_lcstate_events" ELSE fault
     /\ lco_first' = [lco_first EXCEPT ![lce][k] = r.lco]
     /\ UNCHANGED <<env_txncycle, lce_flags, pth_envown, lcd_cmds, svc, clock, pipe,
                    last, h_snap, h_expect, h_reset, h_merged, parsed>>

\* service_update_timers, first loop, for the one lcobject of the list
FunUpdate(lce, k) ==
  LET lco == lco_first[lce][k]
  IN /\ fault = "none"
     /\ svc[lce].pc = "advance"
     /\ lco_first' = [lco_first EXCEPT ![lce][k] =
                        IF lco.tim_first = 0 THEN update_lcobject_firetime(lco, clock) ELSE lco]
     /\ svc' = [svc EXCEPT ![lce] = [Idle("fire") EXCEPT !.now = clock, !.lco = k]]
     /\ UNCHANGED <<env_txncycle, lce_flags, pth_envown, lcd_cmds, clock, fault, pipe,
                    last, h_snap, h_expect, h_reset, h_merged, adv, parsed>>

\* service_update_timers, one round of the second loop
FunFire(lce, k) ==
  LET lco   == lco_first[lce][k]
      fired == service_fire_timer(lco, lcd_cmds[lce])
  IN /\ fault = "none"
     /\ svc[lce].pc = "fire"
     /\ lco.tim_first <= clock
     /\ pipe' = [pipe EXCEPT ![lce] = [lco |-> lco, recs |-> fired.recs]]
     /\ fault' = IF fired.fault THEN "assert service_fire_timer" ELSE fault
     /\ lco_first' = [lco_first EXCEPT ![lce][k] =
                        IF fired.fault THEN lco ELSE update_lcobject_firetime(lco, clock)]
     /\ UNCHANGED <<env_txncycle, lce_flags, pth_envown, lcd_cmds, svc, clock,
                    last, h_snap, h_expect, h_reset, h_merged, adv, parsed>>

\* the next round of the loop of service_main
FunRound(lce) ==
  /\ fault = "none"
  /\ svc[lce].pc = "fire"
  /\ svc' = [svc EXCEPT ![lce] = Idle("advance")]
  /\ UNCHANGED <<lco_first, env_txncycle, lce_flags, pth_envown, lcd_cmds, clock, fault,
                 pipe, last, h_snap, h_expect, h_reset, h_merged, adv, parsed>>

(***************************************************************************)
(* Specifications                                                          *)
(***************************************************************************)
\* lcdriver tables: "xx", "x", "y" and "y", "xx"
Drivers == << <<"x", "x">>, <<"x">>, <<"y">> >>

DriversY == << <<"y">>, <<"x", "x">> >>

\* one lcenv, its service thread, one distinguishedName
Init == InitWith(Drivers, "start")

Next == Upstream({1}, {1}, {2, 3, 4}) \/ Service({1}) \/ Tick

Spec == Init /\ [][Next]_vars

\* the peers with add, del, commit, rollback and collaborate; the service
\* threads have found nothing to do and stay in pthread_cond_wait, or at
\* its end after a signal
InitRing == InitWith(Drivers, "wait")

NextRing ==
  \/ \E lce \in Peers :
        \/ \E t \in {2, 4} : Add(lce, 1, t)
        \/ Del(lce, 1, 2)
        \/ Commit(lce)
        \/ Rollback(lce)
  \/ Merge(Peers)

SpecRing == InitRing /\ [][NextRing]_vars

\* one lcenv and the calls of the upstream on two distinguishedNames, with
\* values that fail grammar_dn and grammar_lcstate among the inputs; the
\* service thread stays in pthread_cond_wait, or at its end after a signal
InitCalls == InitWith(Drivers, "wait")

NextCalls == Upstream({1}, {1, 2, 3, 4}, {2, 4, 8})

SpecCalls == InitCalls /\ [][NextCalls]_vars

\* the peers with add, del, commit, rollback, collaborate and close, the
\* first one with reset and prepare too; a service thread runs on only when
\* its lcenv is being closed
InitStop == InitWith(Drivers, "wait")

NextStop ==
  \/ \E lce \in Peers :
        \/ Add(lce, 1, 2)
        \/ Del(lce, 1, 2)
        \/ Commit(lce)
        \/ Rollback(lce)
        \/ Close(lce)
        \/ "LCE_SERVICED" \notin lce_flags[lce] /\ ServiceWake(lce)
        \/ CloseJoin(lce)
  \/ Reset(1)
  \/ Prepare(1)
  \/ Merge(Peers)

SpecStop == InitStop /\ [][NextStop]_vars

\* every lcenv with add, commit, rollback and collaborate: transactions
\* are opened, merged into rings, and aborted by an add of what is there
InitAbort == InitWith(Drivers, "wait")

NextAbort ==
  \/ \E lce \in Envs :
        \/ Add(lce, 1, 2)
        \/ Commit(lce)
        \/ Rollback(lce)
  \/ Merge(Envs)

SpecAbort == InitAbort /\ [][NextAbort]_vars

\* one lcenv and its service thread, which the scheduler does not leave
\* waiting for ever when it can take a step
InitLive == InitWith(Drivers, "start")

NextLive == Upstream({1}, {1}, {1, 2}) \/ Service({1}) \/ Tick

SpecLive == InitLive /\ [][NextLive]_vars /\ WF_vars(Service({1}))

\* one lcenv, its service thread, and an upstream that adds values with
\* a timer, commits, and stops the service; each thread goes on when it can
InitClose == InitWith(Drivers, "start")

NextClose ==
  \/ \E t \in {2, 3} : Add(1, 1, t)
  \/ Commit(1)
  \/ StopClear(1)
  \/ StopSignal(1)
  \/ last.seq = 2 /\ CloseJoin(1)
  \/ Service({1})
  \/ Tick

SpecClose ==
  InitClose /\ [][NextClose]_vars /\ WF_vars(Service({1})) /\ WF_vars(StopSignal(1))

\* one lcenv, its service thread, and an upstream that adds a value with
\* a timer and a value without " . ", and commits
InitDot == InitWith(Drivers, "start")

NextDot == (\E t \in {2, 6} : Add(1, 1, t)) \/ Commit(1) \/ Service({1}) \/ Tick

SpecDot == InitDot /\ [][NextDot]_vars

\* one lcenv with two values to add, and its service thread, which the
\* scheduler does not leave waiting for ever when it can take a step
\* again and again; the upstream does not leave a transaction open for
\* ever
InitSignal == InitWith(Drivers, "start")

NextSignal == (\E t \in {2, 3} : Add(1, 1, t)) \/ Commit(1) \/ Service({1}) \/ Tick

SpecSignal ==
  InitSignal /\ [][NextSignal]_vars /\ SF_vars(Service({1})) /\ WF_vars(Commit(1))

\* service_update_timers on every list of two committed lcobjects with
\* timer states, with the service thread at the label refresh
SortTexts == {1, 2, 3, 6}

InitSort ==
  /\ \E n1, n2 \in 1..MaxLcs :
        \E ts1 \in [1..n1 -> SortTexts], ts2 \in [1..n2 -> SortTexts] :
           \E d \in {1, 2} :
              lco_first = [e \in Envs |->
                             IF e = 1
                             THEN <<committed_lcobject(d, ts1), committed_lcobject(3 - d, ts2)>>
                             ELSE <<>>]
  /\ env_txncycle = [e \in Envs |-> NULL]
  /\ lce_flags = [e \in Envs |-> {"LCE_SERVICED"}]
  /\ pth_envown = [e \in Envs |-> IF e = 1 THEN "service" ELSE "free"]
  /\ lcd_cmds = [e \in Envs |-> Drivers]
  /\ svc = [e \in Envs |-> IF e = 1 THEN [Idle("update") EXCEPT !.now = 1] ELSE Idle("start")]
  /\ clock = 1
  /\ fault = "none"
  /\ pipe = [e \in Envs |-> NoFire]
  /\ last = NoCall
  /\ h_snap = [e \in Envs |-> {}]
  /\ h_expect = [e \in Envs |-> {}]
  /\ h_reset = [e \in Envs |-> FALSE]
  /\ h_merged = {}
  /\ adv = NoAdvance
  /\ parsed = NoParse

NextSort == ServiceSort(1) \/ ServiceFire(1) \/ ServiceTimeout(1) \/ Tick

SpecSort == InitSort /\ [][NextSort]_vars

\* parse_der on the octets of strings of every form of length: a head of
\* up to MaxHead characters and a tail of "z" that brings the length
\* to 0..3, 125..128 or 253..256
MaxHead == 3

DerTails == {0, 125, 253}

DerChars == {"a", "b", "c"}

Parse(str) ==
  LET der == der_value(str)
      p   == parse_der(der)
  IN /\ parsed' = [str |-> str, der |-> der, ok |-> p.ok, ptr |-> p.ptr, len |-> p.len]
     /\ UNCHANGED <<lco_first, env_txncycle, lce_flags, pth_envown, lcd_cmds, svc, clock,
                    fault, pipe, last, h_snap, h_expect, h_reset, h_merged, adv>>

InitDer == InitWith(Drivers, "wait")

NextDer ==
  \E n \in 0..MaxHead : \E head \in [1..n -> DerChars] : \E tail \in DerTails :
     Parse(head \o [i \in 1..tail |-> "z"])

SpecDer == InitDer /\ [][NextDer]_vars

\* update_lcstate_firetime on its own: one lcobject with one committed
\* state "t . " and a word, with a timer of each kind among the words
TimeWords ==
  {<<"a", "@">> \o ds \o tl :
     ds \in {<<>>, <<"0">>, <<"0", "0">>, <<"7">>, <<"0", "7">>, <<"1", "2">>,
             <<"1", "0", "7", "3", "7", "4", "1", "8", "2", "3">>,
             <<"1", "0", "7", "3", "7", "4", "1", "8", "2", "4">>,
             <<"2", "1", "4", "7", "4", "8", "3", "6", "4", "7">>,
             <<"2", "1", "4", "7", "4", "8", "3", "6", "4", "8">>,
             <<"9", "9", "9", "9", "9", "9", "9", "9", "9", "9", "9">>},
     tl \in {<<>>, <<" ", "b", "@", "5">>}}
  \cup {<<"a", "@", "=">>, <<"a", "@", "x", "1">>, <<"b", "?", "c">>, <<"v", "=", "1">>,
        <<"d", "o", "n", "e">>}

InitTime ==
  /\ \E w \in TimeWords :
        lco_first = [e \in Envs |->
                       IF e = 1
                       THEN <<[new_lcobject(1) EXCEPT
                                 !.lst = <<text_lcstate(<<"t", " ", ".", " ">> \o w)>>,
                                 !.lcs_first = 1,
                                 !.tim_first = 0]>>
                       ELSE <<>>]
  /\ env_txncycle = [e \in Envs |-> NULL]
  /\ lce_flags = [e \in Envs |-> {"LCE_SERVICED"}]
  /\ pth_envown = [e \in Envs |-> IF e = 1 THEN "service" ELSE "free"]
  /\ lcd_cmds = [e \in Envs |-> Drivers]
  /\ svc = [e \in Envs |-> IF e = 1 THEN Idle("advance") ELSE Idle("start")]
  /\ clock = 1
  /\ fault = "none"
  /\ pipe = [e \in Envs |-> NoFire]
  /\ last = NoCall
  /\ h_snap = [e \in Envs |-> {}]
  /\ h_expect = [e \in Envs |-> {}]
  /\ h_reset = [e \in Envs |-> FALSE]
  /\ h_merged = {}
  /\ adv = NoAdvance
  /\ parsed = NoParse

NextTime == FunUpdate(1, 1) \/ FunRound(1) \/ Tick

SpecTime == InitTime /\ [][NextTime]_vars

\* the functions of the service thread on every committed lcobject
FunTexts == {1, 2, 3, 5, 7}

InitFun ==
  /\ \E n \in 1..MaxLcs : \E ts \in [1..n -> FunTexts] :
        lco_first = [e \in Envs |-> IF e = 1 THEN <<committed_lcobject(1, ts)>> ELSE <<>>]
  /\ env_txncycle = [e \in Envs |-> NULL]
  /\ lce_flags = [e \in Envs |-> {"LCE_SERVICED"}]
  /\ pth_envown = [e \in Envs |-> IF e = 1 THEN "service" ELSE "free"]
  /\ lcd_cmds \in {[e \in Envs |-> Drivers], [e \in Envs |-> DriversY]}
  /\ svc = [e \in Envs |-> IF e = 1 THEN Idle("advance") ELSE Idle("start")]
  /\ clock = 1
  /\ fault = "none"
  /\ pipe = [e \in Envs |-> NoFire]
  /\ last = NoCall
  /\ h_snap = [e \in Envs |-> {}]
  /\ h_expect = [e \in Envs |-> {}]
  /\ h_reset = [e \in Envs |-> FALSE]
  /\ h_merged = {}
  /\ adv = NoAdvance
  /\ parsed = NoParse

NextFun ==
  \/ \E i \in 1..MaxLcs : FunAdvance(1, 1, i)
  \/ FunAdvanceObject(1, 1)
  \/ FunUpdate(1, 1)
  \/ FunFire(1, 1)
  \/ FunRound(1)
  \/ Tick

SpecFun == InitFun /\ [][NextFun]_vars

(***************************************************************************)
(* Properties                                                              *)
(***************************************************************************)
\* C1: after rollback (E), whatever adds, dels and resets came before it,
\* the committed (distinguishedName, lifecycleState) pairs of E are exactly
\* those E had before the first call of the sequence.
C1_RollbackRestores ==
  last.op = "rollback" => Pairs(lco_first[last.lce]) = h_snap[last.lce]

\* C2: commit (E) on an active transaction without reset returns 1 and
\* leaves the pairs E had at open, minus those deleted, plus those added
\* and not deleted later; no lcobject is left without a committed state.
C2_CommitRealises ==
  (last.op = "commit" /\ last.active /\ ~h_reset[last.lce]) =>
     /\ last.ret = 1
     /\ Pairs(lco_first[last.lce]) = h_expect[last.lce]
     /\ \A k \in 1..Len(lco_first[last.lce]) :
           /\ Committed(lco_first[last.lce][k]) # <<>>
           /\ \A i, j \in 1..Len(Committed(lco_first[last.lce][k])) :
                 i # j => Committed(lco_first[last.lce][k])[i].txt
                          # Committed(lco_first[last.lce][k])[j].txt

\* C3: while a transaction is active on E, the pulley holds E's mutex and
\* E's service thread is before its first lock, inside its condition wait,
\* or at the lock that ends the wait: it is in none of
\* service_advance_events, service_update_timers, service_fire_timer.
C3_WorkerLockedOut ==
  \A e \in Envs :
     env_txncycle[e] # NULL =>
        /\ pth_envown[e] = "pulley"
        /\ svc[e].pc \in {"start", "wait", "timedwait", "timedout", "woken", "exit"}

\* C3 happens: a transaction with a staged state is open while the service
\* thread, signalled by an earlier commit, stands at the mutex
C3_Witness ==
  \E e \in Envs :
     /\ env_txncycle[e] # NULL
     /\ svc[e].pc = "woken"
     /\ \E k \in 1..Len(lco_first[e]) : lco_first[e][k].lcs_toadd # lco_first[e][k].lcs_first

\* C4: when lcenvs merged by collaborate, none of them broken since, see a
\* commit on one of them, the commit returns 1 and every one of them has
\* its staged changes realised, is inactive, has its mutex released and
\* its service thread signalled.
C4_RingCommit ==
  \A pr \in last.merged :
     (last.op = "commit" /\ last.lce \in pr) =>
        /\ last.ret = 1
        /\ \A x \in pr :
              /\ env_txncycle[x] = NULL
              /\ pth_envown[x] = "free"
              /\ svc[x].pc \notin {"wait", "timedwait"}
              /\ ~h_reset[x] => Pairs(lco_first[x]) = h_expect[x]

\* C5: when one of the lcenvs merged by collaborate fails an add or del,
\* or is rolled back, every one of them is inactive with its mutex
\* released, has no staged addition left among its committed states, and
\* all but the one rolled back are aborted.
C5_RingBreak ==
  \A pr \in last.merged :
     (/\ last.lce \in pr
      /\ \/ last.op = "rollback"
         \/ last.op \in {"add", "del"} /\ last.ret = 0) =>
        \A x \in pr :
           /\ env_txncycle[x] = NULL
           /\ pth_envown[x] = "free"
           /\ Pairs(lco_first[x]) \subseteq h_snap[x]
           /\ (x # last.lce \/ last.op # "rollback") => "LCE_ABORTED" \in lce_flags[x]

\* C6: collaborate (E1, E2) on two active lcenvs leaves one ring that holds
\* exactly the lcenvs of E1's ring and of E2's ring before the call.
C6_CollaborateOneRing ==
  (last.op = "collaborate" /\ last.ret = 0) =>
     /\ Ring(env_txncycle, last.lce) = last.ring \cup last.ring2
     /\ Ring(env_txncycle, last.lce2) = last.ring \cup last.ring2

\* C7: a call of service_fire_timer on an lcobject writes, in the order of
\* its committed states, one record (distinguishedName, attribute text) for
\* every state with typ_next '@', tim_next <= tim_first and an lcdriver
\* named by the state's leading identifier, to that lcdriver, and nothing
\* else.
C7_FireWritesRecords ==
  \A e \in Envs :
     LET lco == pipe[e].lco
         drv == lcd_cmds[e]
         named(lcs) == {k \in 1..Len(drv) : drv[k] = TokId(lcs.txt)}
         due(lcs) == /\ lcs.typ_next = "@"
                     /\ lcs.tim_next <= lco.tim_first
                     /\ named(lcs) # {}
         want == SelectSeq(Committed(lco), due)
     IN /\ Len(pipe[e].recs) = Len(want)
        /\ \A j \in 1..Len(want) :
              /\ pipe[e].recs[j].lcd \in named(want[j])
              /\ pipe[e].recs[j].dn = lco.dn
              /\ pipe[e].recs[j].attr = want[j].txt

\* C7 happens: an lcobject with two committed states was fired, and one
\* record went to the lcdriver "x" that stands behind "xx" in the table
C7_Witness ==
  \E e \in Envs :
     /\ Len(Committed(pipe[e].lco)) = 2
     /\ Len(pipe[e].recs) = 1
     /\ lcd_cmds[e][pipe[e].recs[1].lcd] = <<"x">>
     /\ pipe[e].recs[1].lcd = 2

\* C8: advance_lcstate_events on a state whose cursor is at name?event
\* moves the cursor past that word exactly when no committed state of the
\* lcobject is named name, or the one that is has event among the words
\* before its own cursor; otherwise the cursor stays and the call returns
\* false.
C8_AdvanceConsumes ==
  adv.lcs # NULL =>
     LET lco    == adv.lco
         lcs    == lco.lst[adv.lcs]
         txt    == lcs.txt
         src    == lcs.ofs_next
         name   == SubSeq(txt, src + 1, src + idlenAt(txt, src))
         evt    == src + Len(name) + 1
         event  == SubSeq(txt, evt + 1, evt + idlenAt(txt, evt))
         c      == Committed(lco)
         sibs   == {j \in 1..Len(c) : TokId(c[j].txt) = name}
         past(s) == Split(SubSeq(s.txt, 1, s.ofs_next), " ")
         has(s) == \E w \in 2..Len(past(s)) : TokId(past(s)[w]) = event
         should == sibs = {} \/ \E j \in sibs : has(c[j])
     IN CharAt(txt, src + Len(name)) = "?" =>
           IF should THEN adv.ofs_next > src
           ELSE adv.ofs_next = src /\ adv.ret = FALSE

\* C9: outside a transaction, an lcobject whose tim_first is not dirty and
\* whose committed states have no dirty tim_next has tim_first equal to
\* the least of these tim_next, MAX_TIME_T when there is none.
C9_FirstFireIsMin ==
  \A e \in Envs :
     env_txncycle[e] = NULL =>
        \A k \in 1..Len(lco_first[e]) :
           LET lco == lco_first[e][k]
               c   == Committed(lco)
           IN (lco.tim_first # 0 /\ \A i \in 1..Len(c) : c[i].tim_next # 0) =>
                 /\ \A i \in 1..Len(c) : lco.tim_first <= c[i].tim_next
                 /\ \/ \E i \in 1..Len(c) : lco.tim_first = c[i].tim_next
                    \/ lco.tim_first = MAX_TIME_T

\* C10: after a commit that returned 1 no lcobject of the lcenv is without
\* a committed state.
C10_NoEmptyObject ==
  (last.op = "commit" /\ last.ret = 1) =>
     \A k \in 1..Len(lco_first[last.lce]) : Committed(lco_first[last.lce][k]) # <<>>

\* C11: whenever no transaction is active on an lcenv, every lcobject of it
\* has lcs_toadd = NULL and lcs_todel = NULL, and the two assertions that
\* txn_open makes on every lcobject have never failed.
C11_StagedEmptyAtRest ==
  /\ fault # "assert txn_open staged"
  /\ \A e \in Envs :
        env_txncycle[e] = NULL =>
           \A k \in 1..Len(lco_first[e]) :
              /\ lco_first[e][k].lcs_toadd = NULL
              /\ lco_first[e][k].lcs_todel = NULL

\* C11 happens: a broken transaction was rolled back and the next add has
\* opened a transaction on an lcenv that holds committed states
C11_Witness ==
  /\ last.op = "add"
  /\ ~last.active
  /\ last.ret = 1
  /\ fault = "none"
  /\ h_snap[last.lce] # {}
  /\ \E k \in 1..Len(lco_first[last.lce]) :
        /\ lco_first[last.lce][k].lcs_first # NULL
        /\ lco_first[last.lce][k].lcs_toadd # lco_first[last.lce][k].lcs_first

\* C12: add (dn, lcs) of a valid pair that is not live on an lcenv that is
\* not aborted, del (dn, lcs) right after it, commit right after that: the
\* three calls return 1, and the lcobjects and their committed pairs are
\* those a commit in place of the add would have left.
C12_AddDelCommit ==
  last.seq = 3 =>
     /\ last.rets = <<1, 1, 1>>
     /\ [k \in 1..Len(lco_first[last.lce]) |-> lco_first[last.lce][k].dn] = last.alone[1]
     /\ Pairs(lco_first[last.lce]) = last.alone[2]

\* C13: add (dn, lcs) with valid input on an lcenv that is not aborted
\* returns 0, leaves the lcenv inactive, aborted and unlocked exactly when
\* the lcobject dn holds a state of the same text among lcs_toadd ..
\* lcs_todel (the committed states when the call has to open the
\* transaction); otherwise it returns 1, the lcobject dn (made when there
\* was none) has that one state more in front of lcs_toadd, and every
\* other lcobject keeps its states.
C13_AddDoubleOrStage ==
  [][(last' # last /\ last'.op = "add" /\ ~last'.aborted /\ InputOk(last'.d, last'.t)) =>
       LET e     == last'.lce
           d     == last'.d
           t     == last'.t
           objs  == lco_first[e]
           objs2 == lco_first'[e]
           open  == env_txncycle[e] # NULL
           has(k) == objs[k].dn = DnText[d]
           from(lco) == Pos(IF open THEN lco.lcs_toadd ELSE lco.lcs_first, Len(lco.lst))
           upto(lco) == IF open THEN Pos(lco.lcs_todel, Len(lco.lst)) - 1 ELSE Len(lco.lst)
           dup   == \E k \in 1..Len(objs) :
                       /\ has(k)
                       /\ \E i \in from(objs[k])..upto(objs[k]) :
                             objs[k].lst[i].txt = LcsText[t]
           known == \E k \in 1..Len(objs) : has(k)
           \* where the lcobject k of before the call is after it
           at(k) == IF known THEN k ELSE k + 1
           old(k) == IF has(k) THEN objs[k] ELSE new_lcobject(d)
       IN IF dup
          THEN /\ last'.ret = 0
               /\ env_txncycle'[e] = NULL
               /\ "LCE_ABORTED" \in lce_flags'[e]
               /\ pth_envown'[e] = "free"
          ELSE /\ last'.ret = 1
               /\ env_txncycle'[e] = IF open THEN env_txncycle[e] ELSE e
               /\ "LCE_ABORTED" \notin lce_flags'[e]
               /\ Len(objs2) = IF known THEN Len(objs) ELSE Len(objs) + 1
               /\ ~known => /\ objs2[1].dn = DnText[d]
                            /\ objs2[1].lst = <<init_lcstate(t)>>
                            /\ objs2[1].lcs_toadd = 1
                            /\ objs2[1].lcs_first = NULL
                            /\ objs2[1].lcs_todel = NULL
               /\ \A k \in 1..Len(objs) :
                     LET lco  == objs[k]
                         lco2 == objs2[at(k)]
                         n    == Len(lco.lst)
                     IN IF has(k)
                        THEN /\ lco2.dn = lco.dn
                             /\ lco2.lst = <<init_lcstate(t)>> \o lco.lst
                             /\ lco2.lcs_toadd = 1
                             /\ Pos(lco2.lcs_first, n + 1) = Pos(lco.lcs_first, n) + 1
                             /\ Pos(lco2.lcs_todel, n + 1) = Pos(lco.lcs_todel, n) + 1
                        ELSE /\ lco2.dn = lco.dn
                             /\ lco2.lst = lco.lst
                             /\ lco2.lcs_first = lco.lcs_first
                             /\ lco2.lcs_todel = lco.lcs_todel
                             /\ lco2.lcs_toadd = IF open THEN lco.lcs_toadd ELSE lco.lcs_first
     ]_vars

\* C13 happens: an add of a pair that an earlier add of the same
\* transaction had staged has returned 0 and left the lcenv aborted, while
\* another lcobject was there
C13_Witness ==
  /\ last.op = "add"
  /\ last.ret = 0
  /\ last.active
  /\ ~last.aborted
  /\ InputOk(last.d, last.t)
  /\ h_snap[last.lce] = {}
  /\ "LCE_ABORTED" \in lce_flags[last.lce]
  /\ Len(lco_first[last.lce]) = 2

\* C14: del (dn, lcs) on an lcenv that is not aborted returns 1 only when
\* the lcobject dn holds a state of that text among lcs_toadd .. lcs_todel
\* (the committed states when the call has to open the transaction), and
\* then that state, and no other, has gone from there to the front of the
\* chain at lcs_todel; without such a state the call returns 0 and leaves
\* the lcenv inactive, aborted and unlocked.
C14_DelLiveOrBreak ==
  [][(last' # last /\ last'.op = "del" /\ ~last'.aborted) =>
       LET e     == last'.lce
           d     == last'.d
           t     == last'.t
           objs  == lco_first[e]
           objs2 == lco_first'[e]
           open  == env_txncycle[e] # NULL
           has(k) == objs[k].dn = DnText[d]
           live(lco) == IF open
                        THEN SubSeq(lco.lst, Pos(lco.lcs_toadd, Len(lco.lst)),
                                    Pos(lco.lcs_todel, Len(lco.lst)) - 1)
                        ELSE Committed(lco)
           gone(lco) == IF open
                        THEN SubSeq(lco.lst, Pos(lco.lcs_todel, Len(lco.lst)), Len(lco.lst))
                        ELSE <<>>
           live2(lco) == SubSeq(lco.lst, Pos(lco.lcs_toadd, Len(lco.lst)),
                                Pos(lco.lcs_todel, Len(lco.lst)) - 1)
           gone2(lco) == SubSeq(lco.lst, Pos(lco.lcs_todel, Len(lco.lst)), Len(lco.lst))
           hit(lco) == {i \in 1..Len(live(lco)) : live(lco)[i].txt = LcsText[t]}
           found == \E k \in 1..Len(objs) : has(k) /\ hit(objs[k]) # {}
           moved ==
             /\ env_txncycle'[e] = IF open THEN env_txncycle[e] ELSE e
             /\ "LCE_ABORTED" \notin lce_flags'[e]
             /\ Len(objs2) = Len(objs)
             /\ \A k \in 1..Len(objs) :
                   /\ objs2[k].dn = objs[k].dn
                   /\ IF has(k)
                      THEN LET i == CHOOSE i \in hit(objs[k]) : \A j \in hit(objs[k]) : i <= j
                           IN /\ live2(objs2[k]) = RemoveAt(live(objs[k]), i)
                              /\ gone2(objs2[k]) = <<live(objs[k])[i]>> \o gone(objs[k])
                      ELSE /\ live2(objs2[k]) = live(objs[k])
                           /\ gone2(objs2[k]) = gone(objs[k])
       IN /\ last'.ret = 1 => found /\ moved
          /\ ~found => /\ last'.ret = 0
                       /\ env_txncycle'[e] = NULL
                       /\ "LCE_ABORTED" \in lce_flags'[e]
                       /\ pth_envown'[e] = "free"
     ]_vars

\* C14 happens: a del has moved a state that the same transaction had
\* added behind lcs_todel, on an lcenv that holds a second lcobject
C14_Witness ==
  /\ last.op = "del"
  /\ last.ret = 1
  /\ last.active
  /\ h_snap[last.lce] = {}
  /\ Len(lco_first[last.lce]) = 2
  /\ \E k \in 1..Len(lco_first[last.lce]) :
        /\ lco_first[last.lce][k].dn = DnText[last.d]
        /\ lco_first[last.lce][k].lcs_todel # NULL
        /\ lco_first[last.lce][k].lst[lco_first[last.lce][k].lcs_todel].txt = LcsText[last.t]

\* C15: an add or del on an lcenv that is not aborted, of a value whose
\* length of length is not 1 or 2, that holds a NUL character among its
\* characters, or that fails grammar_dn or grammar_lcstate, returns 0 and
\* leaves the lcenv inactive, aborted and unlocked, with the committed
\* pairs it had when the transaction was opened: nothing that was staged
\* is kept, and no lcobject and no state has been made.
C15_RejectedInputBreaks ==
  [][(last' # last /\ last'.op \in {"add", "del"} /\ ~last'.aborted) =>
       LET e     == last'.lce
           dn    == der_dn[last'.d]
           at    == der_at[last'.t]
           objs  == lco_first[e]
           objs2 == lco_first'[e]
           lenlen(der) == der[2] >= 128 /\ der[2] % 128 \notin {1, 2}
           inner(der)  == \E i \in 1..Len(der_str(der)) : der_str(der)[i] = NUL
           rejected ==
             \/ lenlen(dn) \/ lenlen(at)
             \/ inner(dn) \/ inner(at)
             \/ ~grammar_dn(der_str(dn))
             \/ ~grammar_lcstate(der_str(at))
       IN rejected =>
             /\ last'.ret = 0
             /\ env_txncycle'[e] = NULL
             /\ "LCE_ABORTED" \in lce_flags'[e]
             /\ pth_envown'[e] = "free"
             /\ Pairs(objs2) = IF env_txncycle[e] # NULL THEN h_snap[e] ELSE Pairs(objs)
             /\ Len(objs2) = Len(objs)
             /\ \A k \in 1..Len(objs) :
                   /\ objs2[k].dn = objs[k].dn
                   /\ Len(objs2[k].lst) <= Len(objs[k].lst)
     ]_vars

\* C16: an add or del on an aborted lcenv returns 0 and changes nothing:
\* no transaction is opened, the mutex is not taken, the lcobjects and
\* their states stay as they are and no assertion fails; and an lcenv
\* stops being aborted only in a commit or rollback called on it.
C16_AbortedRefuses ==
  [][/\ (last' # last /\ last'.op \in {"add", "del"} /\ last'.aborted) =>
           /\ last'.ret = 0
           /\ UNCHANGED <<lco_first, env_txncycle, lce_flags, pth_envown, svc, fault>>
     /\ \A e \in Envs :
           ("LCE_ABORTED" \in lce_flags[e] /\ "LCE_ABORTED" \notin lce_flags'[e]) =>
              last'.op \in {"commit", "rollback"} /\ last'.lce = e
    ]_vars

\* C16 happens: an add with valid input was refused on an aborted lcenv
\* that holds committed states, while its service thread had the mutex
C16_Witness ==
  /\ last.op = "add"
  /\ last.aborted
  /\ last.ret = 0
  /\ InputOk(last.d, last.t)
  /\ "LCE_ABORTED" \in lce_flags[last.lce]
  /\ pth_envown[last.lce] = "service"
  /\ Pairs(lco_first[last.lce]) # {}

\* C17: commit on an lcenv returns 0 exactly when the lcenv is aborted, and
\* then it clears the aborted flag and changes nothing else, so that an
\* add that follows finds the lcenv neither aborted nor active and opens a
\* transaction; commit on an lcenv that is neither active nor aborted
\* returns 1 and changes nothing.
C17_CommitOfAborted ==
  [][/\ (last' # last /\ last'.op = "commit") =>
           LET e == last'.lce
           IN /\ last'.ret = 0 <=> last'.aborted
              /\ last'.aborted =>
                    /\ lce_flags' = [lce_flags EXCEPT ![e] = @ \ {"LCE_ABORTED"}]
                    /\ UNCHANGED <<lco_first, env_txncycle, pth_envown, svc, fault>>
              /\ (~last'.aborted /\ ~last'.active) =>
                    /\ last'.ret = 1
                    /\ UNCHANGED <<lco_first, env_txncycle, lce_flags, pth_envown, svc, fault>>
     /\ (/\ last.op = "commit" /\ last.ret = 0
         /\ last' # last /\ last'.op = "add" /\ last'.lce = last.lce) =>
           /\ ~last'.aborted
           /\ ~last'.active
           /\ last'.ret = 1 => env_txncycle'[last'.lce] = last'.lce
    ]_vars

\* C17 happens: a transaction on committed states was broken by a refused
\* call, a commit has returned 0 and the lcenv is not aborted any more
C17_Witness ==
  /\ last.op = "commit"
  /\ last.aborted
  /\ last.ret = 0
  /\ "LCE_ABORTED" \notin lce_flags[last.lce]
  /\ env_txncycle[last.lce] = NULL
  /\ Pairs(lco_first[last.lce]) # {}

\* C18: where every step is a call of the upstream: rollback leaves its
\* lcenv neither active nor aborted, whether it was active, aborted or
\* neither, and no assertion fails; a rollback that follows a rollback of
\* the same lcenv directly changes nothing.
C18_RollbackIdempotent ==
  [][last'.op = "rollback" =>
       LET e == last'.lce
       IN /\ env_txncycle'[e] = NULL
          /\ "LCE_ABORTED" \notin lce_flags'[e]
          /\ fault' = "none"
          /\ (last.op = "rollback" /\ last.lce = e) =>
                UNCHANGED <<lco_first, env_txncycle, lce_flags, pth_envown, svc, fault>>
    ]_vars

\* C18 happens: a rollback has ended an active transaction on an lcenv
\* that holds committed states and has left it neither active nor aborted
C18_Witness ==
  /\ last.op = "rollback"
  /\ last.active
  /\ env_txncycle[last.lce] = NULL
  /\ "LCE_ABORTED" \notin lce_flags[last.lce]
  /\ h_snap[last.lce] # {}

\* C19: under every sequence of add, del, reset, prepare, commit, rollback,
\* collaborate (on lcenvs that are active or aborted) and close, no lcenv
\* is active and aborted at once, and the assertions of txn_open,
\* txn_isaborted_set and txn_isaborted_clr on txn_isactive and
\* txn_isaborted have not failed.
C19_ActiveExcludesAborted ==
  /\ \A e \in Envs : ~(env_txncycle[e] # NULL /\ "LCE_ABORTED" \in lce_flags[e])
  /\ fault \notin {"assert txn_open", "assert txn_isaborted_set", "assert txn_isaborted_clr"}

\* C19 happens: close of an lcenv whose transaction was merged with that
\* of another lcenv has broken both, and the other one is aborted
C19_Witness ==
  /\ last.op = "close"
  /\ last.active
  /\ Cardinality(last.ring) = 2
  /\ fault = "none"
  /\ \A e \in last.ring : env_txncycle[e] = NULL /\ "LCE_ABORTED" \in lce_flags[e]

\* C20: where every step is a call of the upstream: collaborate (E1, E2)
\* with one of the two aborted and the other active returns 1 and leaves
\* both, and every lcenv of the ring of the active one, inactive, aborted
\* and unlocked with nothing staged; with both aborted it returns 1 and
\* changes nothing.
C20_CollaborateWithAborted ==
  [][last'.op = "collaborate" =>
       LET e1 == last'.lce
           e2 == last'.lce2
           a1 == "LCE_ABORTED" \in lce_flags[e1]
           a2 == "LCE_ABORTED" \in lce_flags[e2]
           broken(x) ==
             /\ env_txncycle'[x] = NULL
             /\ "LCE_ABORTED" \in lce_flags'[x]
             /\ pth_envown'[x] = "free"
             /\ \A k \in 1..Len(lco_first'[x]) :
                   /\ lco_first'[x][k].lcs_toadd = NULL
                   /\ lco_first'[x][k].lcs_todel = NULL
       IN /\ (a1 /\ a2) =>
                /\ last'.ret = 1
                /\ UNCHANGED <<lco_first, env_txncycle, lce_flags, pth_envown, svc, fault>>
          /\ (a1 /\ ~a2) =>
                /\ last'.ret = 1
                /\ fault' = "none"
                /\ \A x \in {e1} \cup Ring(env_txncycle, e2) : broken(x)
          /\ (~a1 /\ a2) =>
                /\ last'.ret = 1
                /\ fault' = "none"
                /\ \A x \in {e2} \cup Ring(env_txncycle, e1) : broken(x)
    ]_vars

\* C20 happens: collaborate of an lcenv in a ring of two with an aborted
\* lcenv has returned 1 and all three are aborted
C20_Witness ==
  /\ last.op = "collaborate"
  /\ last.ret = 1
  /\ Cardinality(last.ring) = 2
  /\ last.lce2 \notin last.ring
  /\ \A e \in Envs : env_txncycle[e] = NULL /\ "LCE_ABORTED" \in lce_flags[e]

\* C21: a commit that returns 1 on a transaction in which reset was called
\* leaves exactly the pairs added (and not deleted) after the reset; when
\* there are none the lcenv has no lcobject at all.
C21_ResetThenCommit ==
  (last.op = "commit" /\ last.active /\ last.ret = 1 /\ h_reset[last.lce]) =>
     /\ Pairs(lco_first[last.lce]) = h_expect[last.lce]
     /\ h_expect[last.lce] = {} => lco_first[last.lce] = <<>>

\* C21 happens: a transaction with a reset was committed and left a pair
\* that was added after the reset
C21_Witness ==
  /\ last.op = "commit" /\ last.active /\ last.ret = 1
  /\ h_reset[last.lce]
  /\ h_expect[last.lce] # {}
  /\ Pairs(lco_first[last.lce]) = h_expect[last.lce]

\* C22: when service_fire_timer ran on an lcobject with a due committed
\* timer state whose life cycle name is the cmdname of no lcdriver, the
\* assertion at its end did not fail and no record was written for that
\* state.
C22_UnmatchedIsLost ==
  \A e \in Envs :
     LET lco == pipe[e].lco
         drv == lcd_cmds[e]
         c   == Committed(lco)
         lost == {i \in 1..Len(c) :
                    /\ c[i].typ_next = "@"
                    /\ c[i].tim_next <= lco.tim_first
                    /\ \A k \in 1..Len(drv) : drv[k] # TokId(c[i].txt)}
     IN lost # {} =>
           /\ fault # "assert service_fire_timer"
           /\ \A j \in 1..Len(pipe[e].recs), i \in lost :
                 pipe[e].recs[j].attr # c[i].txt

\* C23: parse_der on the octets of a string succeeds, and the pointer and
\* the length it gives denote the string: the pointer is at the first
\* character, behind the tag and the length octets, and the length is the
\* number of characters.
C23_ParseDerRoundTrip ==
  parsed.der # <<>> =>
     /\ parsed.ok
     /\ parsed.ptr = Len(parsed.der) - Len(parsed.str)
     /\ parsed.len = Len(parsed.str)

\* C24: advance_lcobject_events on an lcobject returns, and when it is
\* called again on the lcobject as the call before left it, it returns
\* false and moves no cursor.
C24_AdvanceObjectIdempotent ==
  /\ adv.calls >= 1 => fault # "assert advance_lcstate_events"
  /\ adv.calls = 2 => ~adv.ret /\ adv.out = adv.lco

\* C25: prepare (E) returns 1 exactly when E is not aborted and changes
\* nothing of any lcenv; a commit (E) that is the next call returns what
\* the prepare returned.
C25_PrepareTellsCommit ==
  [][/\ last'.op = "prepare" =>
          /\ last'.ret = 1 <=> "LCE_ABORTED" \notin lce_flags[last'.lce]
          /\ UNCHANGED <<lco_first, env_txncycle, lce_flags, pth_envown, svc, fault>>
     /\ (last.op = "prepare" /\ last'.op = "commit" /\ last'.lce = last.lce) =>
          last'.ret = last.ret]_vars

\* C25 happens: prepare has returned 0 on an aborted lcenv, which still is
\* aborted
C25_Witness ==
  /\ last.op = "prepare"
  /\ last.ret = 0
  /\ "LCE_ABORTED" \in lce_flags[last.lce]

\* C26: collaborate (E1, E2) returns 0 exactly when neither lcenv is
\* aborted, and then the transaction cycles of the two have become one
\* that holds the lcenvs of both; it returns 1 exactly when one of them or
\* both are aborted.
C26_CollaborateReturn ==
  [][last'.op = "collaborate" =>
       LET e1 == last'.lce
           e2 == last'.lce2
           a1 == "LCE_ABORTED" \in lce_flags[e1]
           a2 == "LCE_ABORTED" \in lce_flags[e2]
           both == Ring(env_txncycle, e1) \cup Ring(env_txncycle, e2)
       IN /\ last'.ret = 0 <=> (~a1 /\ ~a2)
          /\ last'.ret = 1 <=> (a1 \/ a2)
          /\ last'.ret = 0 =>
                /\ Ring(env_txncycle', e1) = both
                /\ Ring(env_txncycle', e2) = both
    ]_vars

\* C27: whenever the service thread holds the mutex of its lcenv, it
\* comes to the condition wait (or leaves its loop), which releases the
\* mutex, unless an assertion ends the process first.
C27_WorkerReachesWait ==
  \A e \in {1} :
     (pth_envown[e] = "service") ~>
        (svc[e].pc \in {"wait", "timedwait", "exit"} \/ fault # "none")

\* C28: the first loop of service_update_timers ends, and the lcobject list
\* after it holds the lcobjects of the list before it, each one once.
C28_SortEndsWithPermutation ==
  [][\A e \in {1} :
        (svc[e].pc = "update" /\ svc'[e].pc # "update") =>
           /\ svc'[e].pc # "spin"
           /\ Len(lco_first'[e]) = Len(lco_first[e])
           /\ {lco_first'[e][k].dn : k \in 1..Len(lco_first'[e])}
                 = {lco_first[e][k].dn : k \in 1..Len(lco_first[e])}
    ]_vars

\* C29: the lcobject that service_fire_timer was called on has a committed
\* state with typ_next '@' and tim_next <= tim_first of the lcobject.
C29_FireFindsDueState ==
  \A e \in Envs :
     pipe[e] # NoFire =>
        \E i \in 1..Len(Committed(pipe[e].lco)) :
           /\ Committed(pipe[e].lco)[i].typ_next = "@"
           /\ Committed(pipe[e].lco)[i].tim_next <= pipe[e].lco.tim_first

\* C30: when the service thread comes out of its timed wait because the
\* time is reached, unsignalled and with LCE_SERVICED set, it holds the
\* mutex and is at the start of the next round of its loop, and no
\* assertion has failed.
C30_TimeoutGoesRound ==
  [][\A e \in {1} :
        (/\ svc[e].pc = "timedwait"
         /\ clock >= svc[e].abstime
         /\ "LCE_SERVICED" \in lce_flags[e]
         /\ pth_envown[e] = "free"
         /\ pth_envown'[e] = "service") =>
           /\ fault' = "none"
           /\ svc'[e].pc = "advance"
    ]_vars

C32_CommitSignalArrives ==
  \A e \in {1} :
     (/\ last.op = "commit" /\ last.active /\ last.ret = 1 /\ last.lce = e
      /\ svc[e].pc \in {"woken", "timedout", "start"})
        ~> (svc[e].pc = "advance")

\* C33: once service_stop has cleared LCE_SERVICED, the service thread
\* comes to the end of service_main (it finds the flag cleared at the next
\* test of its loop and leaves, so that pthread_join returns), unless the
\* round of the loop that it is in never ends.
C33_StopEndsService ==
  \A e \in {1} :
     (last.op = "stop" /\ last.lce = e)
        ~> (svc[e].pc = "exit" \/ [](svc[e].pc \in {"advance", "update", "fire"}))

\* C34: advance_lcobject_events returns true exactly when it has moved the
\* cursor of a state of the lcobject, and it leaves an lcobject on which
\* advance_lcstate_events moves no cursor any more, whatever the order of
\* the states.
C34_AdvanceObjectFixedPoint ==
  adv.calls >= 1 =>
     /\ fault # "assert advance_lcstate_events"
     /\ adv.ret <=> \E i \in 1..Len(adv.lco.lst) :
                       adv.out.lst[i].ofs_next # adv.lco.lst[i].ofs_next
     /\ \A i \in 1..Len(adv.out.lst) :
           LET r == advance_lcstate_events(adv.out, i)
           IN ~r.fault /\ ~r.ret /\ r.lco = adv.out

\* C35: advance_lcstate_events on a state whose cursor is at name?event,
\* with no committed state named name and no await in the next word,
\* leaves ofs_next at the first character of the next word (or at the
\* end of the text), typ_next as the character after the identifier
\* there, tim_next dirty, and tim_first of the lcobject dirty when it was
\* the tim_next of the state.
C35_AdvanceReclassifies ==
  adv.lcs # NULL =>
     LET lco    == adv.lco
         lcs    == lco.lst[adv.lcs]
         new    == adv.out.lst[adv.lcs]
         txt    == lcs.txt
         src    == lcs.ofs_next
         name   == SubSeq(txt, src + 1, src + idlenAt(txt, src))
         c      == Committed(lco)
         sibs   == {j \in 1..Len(c) : TokId(c[j].txt) = name}
         sp     == strchrnul(txt, src, " ")
         next   == IF CharAt(txt, sp) = " " THEN sp + 1 ELSE sp
     IN (/\ CharAt(txt, src + Len(name)) = "?"
         /\ sibs = {}
         /\ find_type(Tail0(txt, next)) # "?") =>
           /\ fault # "assert advance_lcstate_events"
           /\ new.ofs_next = next
           /\ new.typ_next = find_type(Tail0(txt, next))
           /\ new.tim_next = 0
           /\ (lcs.tim_next # 0 /\ lcs.tim_next = lco.tim_first) => adv.out.tim_first = 0

\* C36: update_lcstate_firetime, called on a state with a dirty tim_next,
\* leaves in tim_next: MAX_TIME_T when the word at the cursor is not a
\* timer; the time of the call when the character after '@' is not a
\* digit or the decimal number is 0; MAX_TIME_T when the decimal number is
\* beyond the largest time_t; and the decimal number otherwise.
C36_FireTimeOfWord ==
  [][\A e \in {1} :
        (/\ Len(lco_first[e]) = 1 /\ Len(lco_first[e][1].lst) = 1
         /\ lco_first[e][1].lst[1].tim_next = 0
         /\ lco_first'[e] # lco_first[e]) =>
           LET lcs   == lco_first'[e][1].lst[1]
               txt   == lcs.txt
               at    == lcs.ofs_next + idlenAt(txt, lcs.ofs_next)
               value == strtoul(txt, at + 1)
           IN lcs.tim_next =
                 IF CharAt(txt, at) # "@" THEN MAX_TIME_T
                 ELSE IF ~isdigit(CharAt(txt, at + 1)) THEN clock
                 ELSE IF value = 0 THEN clock
                 ELSE IF value > MAX_TIME_T THEN MAX_TIME_T
                 ELSE value
    ]_vars

\* C37: while a transaction is active on an lcenv, in every lcobject the
\* stretch from lcs_toadd, the stretch from lcs_first and the stretch from
\* lcs_todel follow one another; the states from lcs_first on were
\* committed when the transaction was opened, and a state of the stretch
\* from lcs_toadd was not, unless it has been deleted since.
C37_StagedRegions ==
  \A e \in {1} :
     env_txncycle[e] # NULL =>
        \A k \in 1..Len(lco_first[e]) :
           LET lco     == lco_first[e][k]
               n       == Len(lco.lst)
               a       == Pos(lco.lcs_toadd, n)
               f       == Pos(lco.lcs_first, n)
               t       == Pos(lco.lcs_todel, n)
               pair(i) == <<lco.dn, lco.lst[i].txt>>
           IN /\ a <= f /\ f <= t
              /\ \A i \in t..n : pair(i) \in h_snap[e]
              /\ \A i \in f..(t - 1) : pair(i) \in h_snap[e]
              /\ \A i \in a..(f - 1) :
                    \/ pair(i) \notin h_snap[e]
                    \/ \E j \in t..n : lco.lst[j].txt = lco.lst[i].txt

\* C38: whenever no transaction is active on an lcenv, no two states of
\* the lcs_first chain of one lcobject have the same text.
C38_CommittedTextsDiffer ==
  \A e \in {1} :
     env_txncycle[e] = NULL =>
        \A k \in 1..Len(lco_first[e]) :
           LET c == Committed(lco_first[e][k])
           IN \A i, j \in 1..Len(c) : c[i].txt = c[j].txt => i = j

\* C39: the mutex of an lcenv is free when txn_open locks it, and held by
\* the upstream when the txn_done or txn_break that ends the transaction
\* unlocks it; the pthread_mutex_unlock of service_stop, after which the
\* mutex is destroyed, is made on a mutex that is held, and the assertion
\* around it does not fail.
C39_UnlockWhileLocked ==
  [][/\ \A e \in Peers :
           /\ (env_txncycle[e] = NULL /\ env_txncycle'[e] # NULL) =>
                 pth_envown[e] = "free" /\ pth_envown'[e] = "pulley"
           /\ (env_txncycle[e] # NULL /\ env_txncycle'[e] = NULL) =>
                 pth_envown[e] = "pulley" /\ pth_envown'[e] = "free"
           /\ (pth_envown[e] # "destroyed" /\ pth_envown'[e] = "destroyed") =>
                 pth_envown[e] # "free"
     /\ fault' # "assert pthread_mutex_unlock"
    ]_vars

\* C40: the state that an add has made has its cursor behind the first
\* " . " of its text, typ_next the character after the identifier there,
\* and a dirty tim_next, and the tim_first of its lcobject is dirty; a
\* state whose text has no " . " has its cursor at the end of the text and
\* typ_next NUL, whatever the service thread has done since, and no record
\* written to an lcdriver is of such a state.
C40_NewStateCursor ==
  \A e \in {1} :
     LET dots(txt) == {p \in 0..(Len(txt) - 3) : SubSeq(txt, p + 1, p + 3) = <<" ", ".", " ">>}
     IN /\ (last.op = "add" /\ last.ret = 1 /\ last.lce = e) =>
              LET lco == lco_first[e][find_lcobject(lco_first[e], last.d)]
                  new == lco.lst[lco.lcs_toadd]
                  txt == LcsText[last.t]
                  ofs == IF dots(txt) = {} THEN Len(txt)
                         ELSE 3 + CHOOSE p \in dots(txt) : \A q \in dots(txt) : p <= q
              IN /\ new.txt = txt
                 /\ new.ofs_next = ofs
                 /\ new.typ_next = IF dots(txt) = {} THEN NUL
                                   ELSE CharAt(txt, ofs + idlenAt(txt, ofs))
                 /\ new.tim_next = 0
                 /\ lco.tim_first = 0
        /\ \A k \in 1..Len(lco_first[e]) : \A i \in 1..Len(lco_first[e][k].lst) :
              LET lcs == lco_first[e][k].lst[i]
              IN dots(lcs.txt) = {} => lcs.ofs_next = Len(lcs.txt) /\ lcs.typ_next = NUL
        /\ \A r \in 1..Len(pipe[e].recs) : dots(pipe[e].recs[r].attr) # {}

\* C40 happens: a timer of an lcobject has been fired while a state
\* without " . " was committed in the same lcobject
C40_Witness ==
  /\ svc[1].pc = "fire"
  /\ pipe[1].recs # <<>>
  /\ Len(lco_first[1]) = 1
  /\ \E i \in 1..Len(lco_first[1][1].lst) : lco_first[1][1].lst[i].txt = LcsText[6]

=============================================================================
